---- MODULE Spec2Model ----
(***************************************************************************)
(* A model of the IR construction and merge/inherit layer of               *)
(* IDLParserTool (src/idl_definitions.py).                                 *)
(*                                                                         *)
(* Python values are modelled as tagged records, so that None, strings and *)
(* lists can be stored in one mapping and compared with each other:        *)
(*   None            [t |-> "none"]                                        *)
(*   a str           [t |-> "str",  v |-> "..."]                           *)
(*   a list          [t |-> "list", v |-> << ... >>]                       *)
(* Objects (attributes, operations, exposures, stringifiers) are records   *)
(* that carry an oid: Python compares and hashes Exposure objects by       *)
(* identity, and the claims speak of "the child's own" member.             *)
(*                                                                         *)
(* Two specifications share the variables:                                 *)
(*   SpecBuild  IdlInterface.__init__ run child by child on one syntax     *)
(*              node, then the checks after its loop;                      *)
(*   Spec       interfaces that __init__ returned, then any sequence of    *)
(*              merge and inherite calls between two distinct interfaces.  *)
(* Three more specifications use the variables of the other entities:      *)
(*   SpecTypes    a type syntax node grown level by level and translated   *)
(*                by type_node_to_type;                                    *)
(*   SpecEntities typedefs and enums as constructed, then their merges;    *)
(*   SpecFile     IdlDefinitions.__init__ run child by child on one root.  *)
(***************************************************************************)
EXTENDS Integers, Sequences, FiniteSets, TLC

VARIABLES interfaces, node, frame, pc, call, ncalls,
          typenode, typedefs, enumerations, root, definitions

\* the interfaces, the syntax nodes they were built from, the constructor
\* that is running and the last merge or inherite call
interfaceVars == <<interfaces, node, frame, pc, call, ncalls>>

\* the type node being translated, the typedefs and the enums, the root node
\* of a file and the container built from it
entityVars == <<typenode, typedefs, enumerations, root, definitions>>

vars == <<interfaces, node, frame, pc, call, ncalls,
          typenode, typedefs, enumerations, root, definitions>>

(***************************************************************************)
(* Bounds of the model.                                                    *)
(***************************************************************************)
\* children of the syntax node that SpecBuild feeds to __init__
MaxChildren == 3
\* children over all the syntax nodes from which Spec builds its interfaces
MaxNodes == 2
\* merge / inherite calls in one behaviour of Spec
MaxCalls == 2

(***************************************************************************)
(* Python values.                                                          *)
(***************************************************************************)
None == [t |-> "none"]

PyStr(s) == [t |-> "str", v |-> s]

PyList(l) == [t |-> "list", v |-> l]

\* bool(value) of a None, str or list
Truthy(val) ==
    CASE val.t = "none" -> FALSE
      [] val.t = "str"  -> val.v # ""
      [] val.t = "list" -> val.v # <<>>
      [] OTHER          -> TRUE

EmptyDict == [k \in {} |-> None]

\* no type node, typedef, enum, root node or container: the specifications
\* of the interfaces leave them alone
NoEntities ==
    /\ typenode = None
    /\ typedefs = EmptyDict
    /\ enumerations = EmptyDict
    /\ root = None
    /\ definitions = None

\* d[k] = v
DictSet(d, k, v) == (k :> v) @@ d

\* d.get(k)
DictGet(d, k) == IF k \in DOMAIN d THEN d[k] ELSE None

\* del d[k]
DictDel(d, k) == [x \in (DOMAIN d) \ {k} |-> d[x]]

\* d.update(e)
DictUpdate(d, e) == e @@ d

Range(s) == {s[k] : k \in DOMAIN s}

\* [x.name for x in s]
Names(s) == {s[k].name : k \in DOMAIN s}

\* every list that holds each element of the finite set S exactly once
SeqsOf(S) ==
    {s \in [1..Cardinality(S) -> S] : \A a \in S : \E k \in DOMAIN s : s[k] = a}

(***************************************************************************)
(* Syntax nodes (the AST provider's contract): a class, a name, properties *)
(* and children.  An Argument node is kept to its name and the text of its *)
(* type; a Type child is kept to the text of the type it translates to.    *)
(***************************************************************************)
ExtAttribute(name, value, children) ==
    [class |-> "ExtAttribute", name |-> name, VALUE |-> value, children |-> children]

ArgumentNode(type, name) == [class |-> "Argument", name |-> name, type |-> type]

ArgumentsNode(args) == [class |-> "Arguments", children |-> args]

CallNode(name, children) == [class |-> "Call", name |-> name, children |-> children]

\* Exposure.__init__; oid is the identity of the new object
Exposure(exposed, runtime_enabled, oid) ==
    [t |-> "Exposure", exposed |-> exposed, runtime_enabled |-> runtime_enabled,
     oid |-> oid]

\* IdlArgument.__init__, for a node with a Type child only
IdlArgument(argument_node) ==
    [name |-> argument_node.name, idl_type |-> argument_node.type]

\* arguments_node_to_arguments
arguments_node_to_arguments(arguments_node) ==
    IF arguments_node = None THEN <<>>
    ELSE [k \in DOMAIN arguments_node.children |->
             IdlArgument(arguments_node.children[k])]

\* an extraction that takes the argument's name for the context and its type
\* for the flag
ExposedToExposuresByName(ea, child, oid) ==
    IF child # None /\ child.class = "Arguments"
    THEN [raised |-> FALSE,
          v |-> LET args == arguments_node_to_arguments(child)
                IN  [k \in DOMAIN args |->
                        Exposure(args[k].name, PyStr(args[k].idl_type), <<oid, k>>)]]
    ELSE [raised |-> ea.VALUE.t \notin {"str", "list"},
          v |-> CASE ea.VALUE.t = "str" -> <<Exposure(ea.VALUE.v, None, <<oid, 1>>)>>
                  [] ea.VALUE.t = "list" ->
                        [k \in DOMAIN ea.VALUE.v |->
                            Exposure(ea.VALUE.v[k], None, <<oid, k>>)]
                  [] OTHER -> <<>>]

\* the Exposed branch of ext_attributes_node_to_extended_attributes: the list
\* of exposures of one Exposed node (raised: a bare [Exposed] iterates None)
ExposedToExposures(ea, child, oid) ==
    IF child # None /\ child.class = "Arguments"
    THEN [raised |-> FALSE,
          v |-> LET args == arguments_node_to_arguments(child)
                IN  [k \in DOMAIN args |->
                        Exposure(args[k].idl_type, PyStr(args[k].name), <<oid, k>>)]]
    ELSE CASE ea.VALUE.t = "str" ->
                [raised |-> FALSE, v |-> <<Exposure(ea.VALUE.v, None, <<oid, 1>>)>>]
           [] ea.VALUE.t = "list" ->
                [raised |-> FALSE,
                 v |-> [k \in DOMAIN ea.VALUE.v |->
                           Exposure(ea.VALUE.v[k], None, <<oid, k>>)]]
           [] OTHER -> [raised |-> TRUE, v |-> <<>>]

\* one iteration of the loop of ext_attributes_node_to_extended_attributes:
\* acc is [raised, d]; ea is the ExtAttribute node at position j
ExtAttributeStep(acc, ea, oid) ==
    LET child == IF ea.children = <<>> THEN None ELSE ea.children[1]
        child_class == IF child = None THEN "" ELSE child.class
        Raise == [acc EXCEPT !.raised = TRUE]
    IN  IF Len(ea.children) > 1 THEN Raise
        ELSE IF ea.name = "Constructor" THEN Raise
        ELSE IF ea.name = "CustomConstructor" THEN Raise
        ELSE IF ea.name = "NamedConstructor"
        THEN IF child_class # "" /\ child_class # "Call" THEN Raise
             ELSE [acc EXCEPT !.d = DictSet(@, ea.name, child)]
        ELSE IF ea.name = "Exposed"
        THEN IF child_class # "" /\ child_class # "Arguments" THEN Raise
             ELSE LET e == ExposedToExposures(ea, child, oid)
                  IN  IF e.raised THEN Raise
                      ELSE [acc EXCEPT !.d = DictSet(@, ea.name, PyList(e.v))]
        ELSE IF child # None THEN Raise
        ELSE [acc EXCEPT !.d = DictSet(@, ea.name, ea.VALUE)]

RECURSIVE ExtAttributesLoop(_, _, _, _)
ExtAttributesLoop(acc, eas, j, oid) ==
    IF j > Len(eas) \/ acc.raised THEN acc
    ELSE ExtAttributesLoop(ExtAttributeStep(acc, eas[j], <<oid, j>>), eas, j + 1, oid)

\* ext_attributes_node_to_extended_attributes(node): [raised, d]; eas are the
\* children of the ExtAttributes node, oid the identity prefix of what it builds
ext_attributes_node_to_extended_attributes(eas, oid) ==
    ExtAttributesLoop([raised |-> FALSE, d |-> EmptyDict], eas, 1, oid)

(***************************************************************************)
(* Entity builders.  A builder that can raise returns [raised, v].         *)
(***************************************************************************)
AttributeNode(name, type, static, ext) ==
    [class |-> "Attribute", name |-> name, type |-> type, STATIC |-> static,
     ext |-> ext]

OperationNode(name, static, specials, arguments, ext) ==
    [class |-> "Operation", name |-> name, STATIC |-> static,
     specials |-> specials, arguments |-> arguments, ext |-> ext]

ConstNode(name, value) == [class |-> "Const", name |-> name, value |-> value]

ConstructorNode(arguments, ext) ==
    [class |-> "Constructor", arguments |-> arguments, ext |-> ext]

StringifierNode(attribute, operation, ext) ==
    [class |-> "Stringifier", attribute |-> attribute, operation |-> operation,
     ext |-> ext]

InheritNode(name) == [class |-> "Inherit", name |-> name]

\* class is Iterable, Maplike or Setlike; types are its Type children
IterableNode(class, types) == [class |-> class, types |-> types]

\* IdlType.is_integer_type, of the type with this name
is_integer_type(idl_type) ==
    idl_type \in {"byte", "octet", "short", "unsigned short", "long",
                  "unsigned long", "long long", "unsigned long long"}

\* IdlType.is_sequence_type / is_record_type, of the type with this text
is_sequence_or_record_type(idl_type) ==
    idl_type \in {"sequence<long>", "record<DOMString, long>"}

\* a test that never rejects [Unforgeable]
UnforgeableAllowed(extended_attributes, is_static) == FALSE

\* 'Unforgeable' in self.extended_attributes and self.is_static
UnforgeableOnStatic(extended_attributes, is_static) ==
    "Unforgeable" \in DOMAIN extended_attributes /\ is_static

\* IdlAttribute.__init__
IdlAttribute(n, oid) ==
    LET ea == ext_attributes_node_to_extended_attributes(n.ext, oid)
    IN  IF ea.raised \/ UnforgeableOnStatic(ea.d, n.STATIC)
        THEN [raised |-> TRUE, v |-> None]
        ELSE [raised |-> FALSE,
              v |-> [t |-> "IdlAttribute", name |-> n.name, idl_type |-> n.type,
                     is_static |-> n.STATIC, extended_attributes |-> ea.d,
                     is_eventhandler |-> "EventHandler" \in DOMAIN ea.d,
                     defined_in |-> None, oid |-> oid]]

\* IdlOperation.__init__
IdlOperation(n, oid) ==
    LET ea == ext_attributes_node_to_extended_attributes(n.ext, oid)
    IN  IF ea.raised \/ UnforgeableOnStatic(ea.d, n.STATIC)
        THEN [raised |-> TRUE, v |-> None]
        ELSE [raised |-> FALSE,
              v |-> [t |-> "IdlOperation", name |-> n.name,
                     arguments |-> arguments_node_to_arguments(ArgumentsNode(n.arguments)),
                     specials |-> n.specials, is_static |-> n.STATIC,
                     is_constructor |-> FALSE, extended_attributes |-> ea.d,
                     defined_in |-> None, oid |-> oid]]

\* IdlOperation.constructor_from_arguments_node
constructor_from_arguments_node(name, arguments_node, oid) ==
    [t |-> "IdlOperation", name |-> name,
     arguments |-> arguments_node_to_arguments(arguments_node),
     specials |-> {}, is_static |-> FALSE, is_constructor |-> TRUE,
     extended_attributes |-> EmptyDict, defined_in |-> None, oid |-> oid]

\* IdlConstant.__init__, for a node with its type and Value children
IdlConstant(n, oid) ==
    [t |-> "IdlConstant", name |-> n.name, value |-> n.value, oid |-> oid]

\* IdlStringifier.__init__: the stringifier's extended attributes are copied
\* onto its attribute or operation after that member has been built
IdlStringifier(n, oid) ==
    LET a  == IF n.attribute = None THEN [raised |-> FALSE, v |-> None]
              ELSE IdlAttribute(n.attribute, <<oid, "a">>)
        o  == IF n.operation = None THEN [raised |-> FALSE, v |-> None]
              ELSE IdlOperation(n.operation, <<oid, "o">>)
        ea == ext_attributes_node_to_extended_attributes(n.ext, oid)
        \* if operation.name: self.operation = operation
        op == IF o.raised \/ o.v = None \/ o.v.name = "" THEN None ELSE o.v
    IN  IF a.raised \/ o.raised \/ ea.raised THEN [raised |-> TRUE, v |-> None]
        ELSE [raised |-> FALSE,
              v |-> [t |-> "IdlStringifier",
                     attribute |->
                        IF a.v # None
                        THEN [a.v EXCEPT !.extended_attributes = DictUpdate(@, ea.d)]
                        ELSE None,
                     operation |->
                        IF a.v = None /\ op # None
                        THEN [op EXCEPT !.extended_attributes = DictUpdate(@, ea.d)]
                        ELSE op,
                     extended_attributes |-> ea.d, oid |-> oid]]

\* IdlIterable.__init__ / IdlMaplike.__init__ / IdlSetlike.__init__
IdlIterableOrMaplikeOrSetlike(n, oid) ==
    LET ok == CASE n.class = "Iterable" -> Len(n.types) \in {1, 2}
                [] n.class = "Maplike"  -> Len(n.types) = 2
                [] OTHER                -> Len(n.types) = 1
    IN  IF ~ok THEN [raised |-> TRUE, v |-> None]
        ELSE [raised |-> FALSE,
              v |-> [t |-> n.class,
                     key_type |-> IF Len(n.types) = 2 THEN PyStr(n.types[1]) ELSE None,
                     value_type |-> PyStr(n.types[Len(n.types)]), oid |-> oid]]

\* constructor_operation_from_node: [raised, constructor, extended_attributes,
\* is_custom]
constructor_operation_from_node(n, oid) ==
    LET ea == ext_attributes_node_to_extended_attributes(n.ext, oid)
        Raise == [raised |-> TRUE, constructor |-> None,
                  extended_attributes |-> EmptyDict, is_custom |-> FALSE]
    IN  IF ea.raised \/ n.arguments = None THEN Raise
        ELSE IF "Custom" \in DOMAIN ea.d
        THEN IF Truthy(ea.d["Custom"]) THEN Raise
             ELSE [raised |-> FALSE,
                   constructor |->
                      constructor_from_arguments_node("CustomConstructor", n.arguments, oid),
                   extended_attributes |-> DictDel(ea.d, "Custom"),
                   is_custom |-> TRUE]
        ELSE [raised |-> FALSE,
              constructor |->
                 constructor_from_arguments_node("Constructor", n.arguments, oid),
              extended_attributes |-> ea.d, is_custom |-> FALSE]

\* extended_attributes_to_constructors: [raised, constructors,
\* custom_constructors, d]; d is the mapping as the call leaves it (the
\* NamedConstructor entry becomes the name of its Call node).  The plural
\* keys Constructors / CustomConstructors are never set by the extractor.
extended_attributes_to_constructors(d, oid) ==
    IF "NamedConstructor" \notin DOMAIN d
    THEN [raised |-> FALSE, constructors |-> <<>>, custom_constructors |-> <<>>,
          d |-> d]
    ELSE LET call_node == d["NamedConstructor"]
         IN  IF call_node = None \/ Len(call_node.children) # 1
             THEN [raised |-> TRUE, constructors |-> <<>>,
                   custom_constructors |-> <<>>, d |-> d]
             ELSE [raised |-> FALSE,
                   constructors |->
                      <<constructor_from_arguments_node(
                            "NamedConstructor", call_node.children[1], oid)>>,
                   custom_constructors |-> <<>>,
                   d |-> DictSet(d, "NamedConstructor", PyStr(call_node.name))]

\* clear_constructor_attributes
clear_constructor_attributes(d) ==
    LET d1 == IF "Constructors" \in DOMAIN d
              THEN DictSet(DictDel(d, "Constructors"), "Constructor", None)
              ELSE d
    IN  IF "CustomConstructors" \in DOMAIN d1
        THEN DictSet(DictDel(d1, "CustomConstructors"), "CustomConstructor", None)
        ELSE d1

\* check_constructor_operations_extended_attributes: TRUE when it raises
check_constructor_operations_extended_attributes(current_attrs, new_attrs) ==
    \E attr \in {"CallWith", "RaisesException"} :
        DictGet(current_attrs, attr) # DictGet(new_attrs, attr)

\* the conversion of one entry by
\* convert_constructor_operations_extended_attributes: TRUE when it raises
ConvertRaises(name, value) ==
    \/ name = "RaisesException" /\ Truthy(value)
    \/ name \notin {"CallWith", "RaisesException", "MeasureAs", "Measure"}

ConvertedName(name) == IF name = "CallWith" THEN "ConstructorCallWith" ELSE name

ConvertedValue(name, value) ==
    CASE name = "RaisesException" -> PyStr("Constructor")
      [] name = "Measure"         -> None
      [] OTHER                    -> value

\* convert_constructor_operations_extended_attributes: [raised, d]
convert_constructor_operations_extended_attributes(extended_attributes) ==
    IF \E name \in DOMAIN extended_attributes :
          ConvertRaises(name, extended_attributes[name])
    THEN [raised |-> TRUE, d |-> EmptyDict]
    ELSE [raised |-> FALSE,
          d |-> [c \in {ConvertedName(name) : name \in DOMAIN extended_attributes} |->
                   LET name == CHOOSE x \in DOMAIN extended_attributes :
                                  ConvertedName(x) = c
                   IN  ConvertedValue(name, extended_attributes[name])]]

(***************************************************************************)
(* IdlInterface.                                                           *)
(***************************************************************************)
\* the fields IdlInterface.__init__ sets before it reads the node's children,
\* for a node without the PARTIAL property
NewInterface(name) ==
    [name |-> name, attributes |-> <<>>, attributes_dict |-> EmptyDict,
     attributes_type_dict |-> EmptyDict, constants |-> <<>>,
     constructors |-> <<>>, custom_constructors |-> <<>>,
     extended_attributes |-> EmptyDict, operations |-> <<>>, parent |-> None,
     stringifier |-> None, iterable |-> None, has_indexed_elements |-> FALSE,
     has_named_property_getter |-> FALSE, maplike |-> None, setlike |-> None,
     is_partial |-> FALSE, event_handler |-> None, eventhandlers |-> <<>>]

\* the locals of IdlInterface.__init__, with the interface it is building
NewFrame(name) ==
    [self |-> NewInterface(name), has_indexed_property_getter |-> FALSE,
     has_integer_typed_length |-> FALSE, constructor_operations |-> <<>>,
     custom_constructor_operations |-> <<>>,
     constructor_operations_extended_attributes |-> EmptyDict,
     raised |-> FALSE]

Raise(st) == [st EXCEPT !.raised = TRUE]

\* the index by type name: setdefault(type, []).append(attr)
TypeDictAppend(d, attr) ==
    DictSet(d, attr.idl_type,
            Append(IF attr.idl_type \in DOMAIN d THEN d[attr.idl_type] ELSE <<>>, attr))

\* the name-keyed index of an Attribute child: attributes_dict[attr.name] = attr
IndexAttribute(d, attr) == DictSet(d, attr.name, attr)

\* a test that looks at the attribute's name only
IsLength(attr) == attr.name = "length"

\* attr.idl_type.is_integer_type and attr.name == 'length'
IsIntegerTypedLength(attr) == is_integer_type(attr.idl_type) /\ attr.name = "length"

\* child_class == 'Attribute'
InitAttribute(st, child, k) ==
    LET r == IdlAttribute(child, <<st.self.name, k>>)
    IN  IF r.raised THEN Raise(st)
        ELSE IF is_sequence_or_record_type(r.v.idl_type) THEN Raise(st)
        ELSE LET attr == [r.v EXCEPT !.defined_in = PyStr(st.self.name)]
             IN  [st EXCEPT
                    !.has_integer_typed_length =
                        @ \/ IsIntegerTypedLength(attr),
                    !.self.attributes = Append(@, attr),
                    !.self.attributes_dict = IndexAttribute(@, attr),
                    !.self.attributes_type_dict = TypeDictAppend(@, attr),
                    !.self.eventhandlers =
                        IF attr.is_eventhandler THEN Append(@, attr) ELSE @]

\* child_class == 'Const'
InitConst(st, child, k) ==
    [st EXCEPT !.self.constants = Append(@, IdlConstant(child, <<st.self.name, k>>))]

\* child_class == 'ExtAttributes'
InitExtAttributes(st, child, k) ==
    LET ea == ext_attributes_node_to_extended_attributes(child.children, <<st.self.name, k>>)
        c  == extended_attributes_to_constructors(ea.d, <<st.self.name, k>>)
    IN  IF ea.raised \/ c.raised THEN Raise(st)
        ELSE [st EXCEPT !.self.constructors = c.constructors,
                        !.self.custom_constructors = c.custom_constructors,
                        !.self.extended_attributes = clear_constructor_attributes(c.d)]

\* the type of op.arguments[0], as str() prints it
FirstArgumentType(op) == op.arguments[1].idl_type

\* 'getter' in op.specials and str(op.arguments[0].idl_type) == 'unsigned long'
IsIndexedGetter(op) ==
    "getter" \in op.specials /\ FirstArgumentType(op) = "unsigned long"

\* a test that takes every getter for a named one
IsGetter(op) == "getter" \in op.specials

\* 'getter' in op.specials and str(op.arguments[0].idl_type) == 'DOMString'
IsNamedGetter(op) ==
    "getter" \in op.specials /\ FirstArgumentType(op) = "DOMString"

\* child_class == 'Operation'
InitOperation(st, child, k) ==
    LET r == IdlOperation(child, <<st.self.name, k>>)
    IN  IF r.raised THEN Raise(st)
        ELSE IF "getter" \in r.v.specials /\ r.v.arguments = <<>> THEN Raise(st)
        ELSE IF r.v.name = "handleEvent" /\ st.self.event_handler # None THEN Raise(st)
        ELSE LET op == [r.v EXCEPT !.defined_in = PyStr(st.self.name)]
             IN  [st EXCEPT
                    !.has_indexed_property_getter =
                        @ \/ IsIndexedGetter(op),
                    !.self.has_named_property_getter =
                        @ \/ IsNamedGetter(op),
                    \* the same object as the one appended to operations
                    !.self.event_handler =
                        IF op.name = "handleEvent" THEN op ELSE @,
                    !.self.operations = Append(@, op)]

\* the consistency check made before a constructor operation is recorded
ConstructorsDisagree(st, operation) ==
    /\ st.constructor_operations # <<>>
    /\ check_constructor_operations_extended_attributes(
           st.constructor_operations_extended_attributes,
           operation.extended_attributes)

\* child_class == 'Constructor'
InitConstructor(st, child, k) ==
    LET operation == constructor_operation_from_node(child, <<st.self.name, k>>)
    IN  IF operation.raised THEN Raise(st)
        ELSE IF operation.is_custom
        THEN [st EXCEPT !.custom_constructor_operations =
                            Append(@, operation.constructor)]
        ELSE IF ConstructorsDisagree(st, operation) THEN Raise(st)
        ELSE [st EXCEPT
                !.constructor_operations = Append(@, operation.constructor),
                !.constructor_operations_extended_attributes =
                    DictUpdate(@, operation.extended_attributes)]

\* child_class == 'Inherit'
InitInherit(st, child, k) == [st EXCEPT !.self.parent = PyStr(child.name)]

\* IdlInterface.process_stringifier
process_stringifier(self) ==
    IF self.stringifier.attribute # None
    THEN [self EXCEPT !.attributes = Append(@, self.stringifier.attribute)]
    ELSE IF self.stringifier.operation # None
    THEN [self EXCEPT !.operations = Append(@, self.stringifier.operation)]
    ELSE self

\* child_class == 'Stringifier'
InitStringifier(st, child, k) ==
    LET r == IdlStringifier(child, <<st.self.name, k>>)
    IN  IF r.raised THEN Raise(st)
        ELSE [st EXCEPT !.self = process_stringifier([@ EXCEPT !.stringifier = r.v])]

\* child_class == 'Iterable' / 'Maplike' / 'Setlike'
InitIterable(st, child, k) ==
    LET r == IdlIterableOrMaplikeOrSetlike(child, <<st.self.name, k>>)
    IN  IF r.raised THEN Raise(st)
        ELSE CASE child.class = "Iterable" -> [st EXCEPT !.self.iterable = r.v]
               [] child.class = "Maplike"  -> [st EXCEPT !.self.maplike = r.v]
               [] OTHER                    -> [st EXCEPT !.self.setlike = r.v]

\* one iteration of the loop over node.GetChildren()
InitChild(st, child, k) ==
    CASE child.class = "Attribute"     -> InitAttribute(st, child, k)
      [] child.class = "Const"         -> InitConst(st, child, k)
      [] child.class = "ExtAttributes" -> InitExtAttributes(st, child, k)
      [] child.class = "Operation"     -> InitOperation(st, child, k)
      [] child.class = "Constructor"   -> InitConstructor(st, child, k)
      [] child.class = "Inherit"       -> InitInherit(st, child, k)
      [] child.class = "Stringifier"   -> InitStringifier(st, child, k)
      [] child.class \in {"Iterable", "Maplike", "Setlike"} -> InitIterable(st, child, k)
      [] OTHER                         -> Raise(st)

\* a test that looks at the custom constructors only
MixedCustomConstructors(self) == self.custom_constructors # <<>>

\* the test that rejects constructor operations beside legacy constructors
MixedConstructors(self) ==
    self.constructors # <<>> \/ self.custom_constructors # <<>>

\* a test that accepts any number of kinds
AnyKinds(self) == FALSE

\* len(list(filter(None, [self.iterable, self.maplike, self.setlike]))) > 1
SeveralKinds(self) ==
    Cardinality({f \in {"iterable", "maplike", "setlike"} : self[f] # None}) > 1

\* the checks and the constructor normalisation after the loop
InitFinish(st) ==
    LET self == st.self
        indexed == st.has_integer_typed_length /\ st.has_indexed_property_getter
        conv == convert_constructor_operations_extended_attributes(
                    st.constructor_operations_extended_attributes)
    IN  IF st.raised THEN st
        ELSE IF SeveralKinds(self) THEN Raise(st)
        ELSE IF /\ "LegacyUnenumerableNamedProperties" \in DOMAIN self.extended_attributes
                /\ ~self.has_named_property_getter
        THEN Raise(st)
        ELSE IF ~indexed /\ self.iterable # None /\ self.iterable.key_type = None
        THEN Raise(st)
        ELSE IF "Unforgeable" \in DOMAIN self.extended_attributes THEN Raise(st)
        ELSE IF st.constructor_operations # <<>> \/ st.custom_constructor_operations # <<>>
        THEN IF MixedConstructors(self) THEN Raise(st)
             ELSE IF conv.raised THEN Raise(st)
             ELSE IF (DOMAIN self.extended_attributes) \cap (DOMAIN conv.d) # {}
             THEN Raise(st)
             ELSE [st EXCEPT
                     !.self.has_indexed_elements = indexed,
                     !.self.constructors = st.constructor_operations,
                     !.self.custom_constructors = st.custom_constructor_operations,
                     !.self.extended_attributes = DictUpdate(@, conv.d)]
        ELSE [st EXCEPT !.self.has_indexed_elements = indexed]

RECURSIVE InitChildren(_, _, _)
\* the loop over node.GetChildren(), from child k on
InitChildren(st, children, k) ==
    IF k > Len(children) \/ st.raised THEN st
    ELSE InitChildren(InitChild(st, children[k], k), children, k + 1)

\* IdlInterface(node), for a node with this name and these children: the
\* frame at its end; raised tells whether it raised, self is the interface
IdlInterface(name, children) == InitFinish(InitChildren(NewFrame(name), children, 1))

(***************************************************************************)
(* The syntax nodes fed to the builders.                                   *)
(***************************************************************************)
NoArgs == ArgumentsNode(<<>>)

OneArg == ArgumentsNode(<<ArgumentNode("long", "a")>>)

AttributeNodes ==
    { AttributeNode("x", "long", FALSE, <<>>),
      AttributeNode("onload", "EventHandler", FALSE,
                    <<ExtAttribute("EventHandler", None, <<>>)>>) }

OperationNodes ==
    { OperationNode("foo", FALSE, {}, <<>>, <<>>),
      OperationNode("foo", FALSE, {}, <<ArgumentNode("long", "a")>>, <<>>),
      OperationNode("bar", FALSE, {}, <<>>, <<>>) }

ConstNodes == { ConstNode("C", "1") }

\* [SecureContext, Exposed=Window]
ExtSecureWindow ==
    <<ExtAttribute("SecureContext", None, <<>>),
      ExtAttribute("Exposed", PyStr("Window"), <<>>)>>

\* [SecureContext=Flag, Exposed=Window]
ExtFlagWindow ==
    <<ExtAttribute("SecureContext", PyStr("Flag"), <<>>),
      ExtAttribute("Exposed", PyStr("Window"), <<>>)>>

\* [Exposed=(Window,Worker)]
ExtWindowWorker ==
    <<ExtAttribute("Exposed", PyList(<<"Window", "Worker">>), <<>>)>>

\* [ImplementedAs=Impl, Exposed(Worker Feature)]
ExtImplWorkerFeature ==
    <<ExtAttribute("ImplementedAs", PyStr("Impl"), <<>>),
      ExtAttribute("Exposed", None,
                   <<ArgumentsNode(<<ArgumentNode("Worker", "Feature")>>)>>)>>

\* [NamedConstructor=Audio()]
ExtNamedConstructor ==
    <<ExtAttribute("NamedConstructor", None, <<CallNode("Audio", <<NoArgs>>)>>)>>

\* [MeasureAs=Feature]
ExtMeasureAs == <<ExtAttribute("MeasureAs", PyStr("Feature"), <<>>)>>

ExtAttributesNode(children) == [class |-> "ExtAttributes", children |-> children]

\* the ExtAttributes children of the interfaces that are merged and inherited
MergeExtAttributesNodes ==
    { ExtAttributesNode(ExtSecureWindow), ExtAttributesNode(ExtFlagWindow),
      ExtAttributesNode(ExtImplWorkerFeature) }

ExtAttributesNodes ==
    MergeExtAttributesNodes
        \cup { ExtAttributesNode(ExtWindowWorker),
               ExtAttributesNode(ExtNamedConstructor), ExtAttributesNode(ExtMeasureAs) }

ConstructorNodes ==
    { ConstructorNode(NoArgs, <<>>),
      ConstructorNode(OneArg, <<ExtAttribute("RaisesException", None, <<>>)>>),
      ConstructorNode(OneArg, <<ExtAttribute("CallWith", PyStr("ScriptState"), <<>>)>>),
      ConstructorNode(NoArgs, <<ExtAttribute("CallWith", PyStr("ExecutionContext"), <<>>)>>),
      ConstructorNode(NoArgs, <<ExtAttribute("MeasureAs", PyStr("Feature"), <<>>)>>),
      ConstructorNode(NoArgs, <<ExtAttribute("Custom", None, <<>>)>>) }

StringifierNodes ==
    { StringifierNode(AttributeNode("x", "DOMString", FALSE, <<>>), None, <<>>),
      StringifierNode(None, OperationNode("foo", FALSE, {}, <<>>, <<>>), <<>>),
      StringifierNode(None, None, <<>>) }

InheritNodes == { InheritNode("P") }

IterableNodes ==
    { IterableNode("Iterable", <<"DOMString", "long">>),
      IterableNode("Maplike", <<"DOMString", "long">>),
      IterableNode("Setlike", <<"long">>) }

\* [Unforgeable]
ExtUnforgeable == <<ExtAttribute("Unforgeable", None, <<>>)>>

\* the Attribute children of the node that SpecBuild reads: also a length of
\* an integer and of another type, and [Unforgeable] on a static and on a
\* regular attribute
InterfaceAttributeNodes ==
    AttributeNodes
        \cup { AttributeNode("length", "unsigned long", FALSE, <<>>),
               AttributeNode("length", "DOMString", FALSE, <<>>),
               AttributeNode("s", "long", TRUE, ExtUnforgeable),
               AttributeNode("u", "long", FALSE, ExtUnforgeable) }

\* the Operation children of that node: also handleEvent, an indexed, a named
\* and an argument-less getter, a static operation with and without
\* [Unforgeable]
InterfaceOperationNodes ==
    OperationNodes
        \cup { OperationNode("handleEvent", FALSE, {}, <<>>, <<>>),
               OperationNode("item", FALSE, {"getter"},
                             <<ArgumentNode("unsigned long", "index")>>, <<>>),
               OperationNode("namedItem", FALSE, {"getter"},
                             <<ArgumentNode("DOMString", "name")>>, <<>>),
               OperationNode("", FALSE, {"getter"}, <<>>, <<>>),
               OperationNode("s", TRUE, {}, <<>>, ExtUnforgeable),
               OperationNode("t", TRUE, {}, <<>>, <<>>) }

\* [Exposed(Window FeatureFlag, Worker OtherFlag)]
ExtWindowWorkerFlags ==
    <<ExtAttribute("Exposed", None,
                   <<ArgumentsNode(<<ArgumentNode("Window", "FeatureFlag"),
                                     ArgumentNode("Worker", "OtherFlag")>>)>>)>>

\* the ExtAttributes children of that node
InterfaceExtAttributesNodes ==
    ExtAttributesNodes
        \cup { ExtAttributesNode(ExtUnforgeable),
               ExtAttributesNode(ExtWindowWorkerFlags),
               ExtAttributesNode(
                   <<ExtAttribute("LegacyUnenumerableNamedProperties", None, <<>>)>>) }

\* the Stringifier children of that node: also a stringifier operation named
\* handleEvent and an [Unforgeable] stringifier attribute
InterfaceStringifierNodes ==
    StringifierNodes
        \cup { StringifierNode(None, OperationNode("handleEvent", FALSE, {}, <<>>, <<>>),
                               <<>>),
               StringifierNode(AttributeNode("x", "DOMString", FALSE, <<>>), None,
                               ExtUnforgeable) }

\* the Iterable / Maplike / Setlike children of that node: also iterable<V>
InterfaceIterableNodes ==
    IterableNodes \cup { IterableNode("Iterable", <<"long">>) }

\* a child whose class IdlInterface.__init__ does not recognise
UnrecognizedNodes == { [class |-> "Dictionary", name |-> "D"] }

\* an interface has at most one ExtAttributes child (the grammar) and
\* declares at most one stringifier
WellFormed(children) ==
    \A class \in {"ExtAttributes", "Stringifier"} :
        Cardinality({k \in DOMAIN children : children[k].class = class}) <= 1

(***************************************************************************)
(* SpecBuild: IdlInterface.__init__ on one syntax node named A, one child  *)
(* per step.  node[A] holds the children read so far, a prefix of a        *)
(* well-formed list of children.                                           *)
(***************************************************************************)
InitBuild ==
    /\ interfaces = EmptyDict
    /\ node = [i \in {"A"} |-> <<>>]
    /\ frame = NewFrame("A")
    /\ pc = "loop"
    /\ call = [op |-> "none"]
    /\ ncalls = 0
    /\ NoEntities

\* the loop reads one more child; st is the frame after the branch of its class
Step(child, st) ==
    /\ Len(node["A"]) < MaxChildren
    /\ WellFormed(Append(node["A"], child))
    /\ frame' = st
    /\ pc' = IF st.raised THEN "raised" ELSE "loop"
    /\ node' = [node EXCEPT !["A"] = Append(@, child)]
    /\ UNCHANGED <<interfaces, call, ncalls, entityVars>>

BuildAttribute ==
    /\ pc = "loop"
    /\ \E child \in InterfaceAttributeNodes :
          Step(child, InitAttribute(frame, child, Len(node["A"]) + 1))

BuildConst ==
    /\ pc = "loop"
    /\ \E child \in ConstNodes :
          Step(child, InitConst(frame, child, Len(node["A"]) + 1))

BuildExtAttributes ==
    /\ pc = "loop"
    /\ \E child \in InterfaceExtAttributesNodes :
          Step(child, InitExtAttributes(frame, child, Len(node["A"]) + 1))

BuildOperation ==
    /\ pc = "loop"
    /\ \E child \in InterfaceOperationNodes :
          Step(child, InitOperation(frame, child, Len(node["A"]) + 1))

BuildConstructor ==
    /\ pc = "loop"
    /\ \E child \in ConstructorNodes :
          Step(child, InitConstructor(frame, child, Len(node["A"]) + 1))

BuildInherit ==
    /\ pc = "loop"
    /\ \E child \in InheritNodes :
          Step(child, InitInherit(frame, child, Len(node["A"]) + 1))

BuildStringifier ==
    /\ pc = "loop"
    /\ \E child \in InterfaceStringifierNodes :
          Step(child, InitStringifier(frame, child, Len(node["A"]) + 1))

BuildIterable ==
    /\ pc = "loop"
    /\ \E child \in InterfaceIterableNodes :
          Step(child, InitIterable(frame, child, Len(node["A"]) + 1))

BuildUnrecognized ==
    /\ pc = "loop"
    /\ \E child \in UnrecognizedNodes : Step(child, Raise(frame))

\* the loop ends: the checks after it, and the return of the interface
BuildFinish ==
    /\ pc = "loop"
    /\ LET st == InitFinish(frame)
       IN  /\ frame' = st
           /\ pc' = IF st.raised THEN "raised" ELSE "ok"
           /\ interfaces' = IF st.raised THEN interfaces ELSE ("A" :> st.self)
    /\ UNCHANGED <<node, call, ncalls, entityVars>>

NextBuild ==
    \/ BuildAttribute
    \/ BuildConst
    \/ BuildExtAttributes
    \/ BuildOperation
    \/ BuildConstructor
    \/ BuildInherit
    \/ BuildStringifier
    \/ BuildIterable
    \/ BuildUnrecognized
    \/ BuildFinish

SpecBuild == InitBuild /\ [][NextBuild]_vars

(***************************************************************************)
(* The merge / inherit engine.                                             *)
(***************************************************************************)
\* IdlInterface.has_attr
has_attr(self, attr_name) == attr_name \in DOMAIN self.attributes_dict

\* IdlInterface.update_attribute
update_attribute(self, attr) ==
    [self EXCEPT !.attributes = Append(@, attr),
                 !.attributes_dict = DictSet(@, attr.name, attr),
                 !.attributes_type_dict = TypeDictAppend(@, attr)]

\* a merge that skips the attributes whose name the receiver already indexes
MergeAttributesShadowing(self, other) ==
    LET RECURSIVE From(_, _)
        From(acc, k) ==
            IF k > Len(other.attributes) THEN acc
            ELSE From(IF has_attr(acc, other.attributes[k].name) THEN acc
                      ELSE update_attribute(acc, other.attributes[k]), k + 1)
    IN  From(self, 1)

RECURSIVE MergeAttributesFrom(_, _, _)
MergeAttributesFrom(self, attrs, k) ==
    IF k > Len(attrs) THEN self
    ELSE MergeAttributesFrom(update_attribute(self, attrs[k]), attrs, k + 1)

\* merge: for attr in other.attributes: self.update_attribute(attr)
MergeAttributes(self, other) == MergeAttributesFrom(self, other.attributes, 1)

\* inherite: whether the loop skips this parent attribute
ShadowedAttribute(self, attr) == has_attr(self, attr.name)

RECURSIVE InheritAttributesFrom(_, _, _)
InheritAttributesFrom(self, attrs, k) ==
    IF k > Len(attrs) THEN self
    ELSE InheritAttributesFrom(
             IF ShadowedAttribute(self, attrs[k]) THEN self
             ELSE update_attribute(self, attrs[k]),
             attrs, k + 1)

\* inherite: the loop over parent.attributes
InheritAttributes(self, parent) == InheritAttributesFrom(self, parent.attributes, 1)

\* an override test by name and argument list instead of by name only
OverwritesBySignature(operations, op) ==
    \E k \in DOMAIN operations :
        operations[k].name = op.name /\ operations[k].arguments = op.arguments

\* inherite: the flag overwrite, for one parent operation against the
\* operations the receiver holds at that iteration
Overwrites(operations, op) ==
    \E k \in DOMAIN operations : operations[k].name = op.name

RECURSIVE InheritOperationsFrom(_, _, _)
InheritOperationsFrom(operations, ops, k) ==
    IF k > Len(ops) THEN operations
    ELSE InheritOperationsFrom(
             IF Overwrites(operations, ops[k]) THEN operations
             ELSE Append(operations, ops[k]),
             ops, k + 1)

\* inherite: the loop over parent.operations
InheritOperations(self, parent) ==
    [self EXCEPT !.operations = InheritOperationsFrom(@, parent.operations, 1)]

\* whether the merge of the extended attributes takes the Exposed branch
ExposedUnion(d, e) ==
    /\ "Exposed" \in DOMAIN e
    /\ Truthy(DictGet(d, "Exposed"))

\* list(set(self.extended_attributes[k] + v)): every order the set of the
\* exposure objects (compared by identity) can be listed in
ExposedLists(d, e) ==
    IF ExposedUnion(d, e)
    THEN SeqsOf(Range(d["Exposed"].v \o e["Exposed"].v))
    ELSE {<<>>}

\* the loop over other.extended_attributes.items(), for the receiver's
\* mapping d and the other's e; exposed is the list the Exposed branch built
MergeExtendedAttributes(d, e, exposed) ==
    [k \in (DOMAIN d) \cup (DOMAIN e) |->
        IF k \notin DOMAIN e THEN d[k]
        ELSE IF ~Truthy(DictGet(d, k)) THEN e[k]
        ELSE IF k = "Exposed" THEN PyList(exposed)
        ELSE d[k]]

\* an unconditional self.stringifier = other.stringifier
AdoptStringifierAlways(self, other) == other.stringifier

\* if self.stringifier is None: self.stringifier = other.stringifier
AdoptStringifier(self, other) ==
    IF self.stringifier = None THEN other.stringifier ELSE self.stringifier

\* IdlInterface.merge
merge(self, other, exposed) ==
    LET s1 == MergeAttributes(self, other)
    IN  [s1 EXCEPT
           !.constants = @ \o other.constants,
           !.operations = @ \o other.operations,
           !.constructors = @ \o other.constructors,
           !.eventhandlers = @ \o other.eventhandlers,
           !.extended_attributes =
               MergeExtendedAttributes(@, other.extended_attributes, exposed),
           !.stringifier = AdoptStringifier(self, other)]

\* IdlInterface.inherite
inherite(self, parent, exposed) ==
    LET s1 == [self EXCEPT !.eventhandlers = @ \o parent.eventhandlers]
        s2 == InheritAttributes(s1, parent)
        s3 == InheritOperations(s2, parent)
    IN  [s3 EXCEPT
           !.constants = @ \o parent.constants,
           !.extended_attributes =
               MergeExtendedAttributes(@, parent.extended_attributes, exposed),
           !.stringifier = AdoptStringifier(self, parent)]

(***************************************************************************)
(* Spec: two interfaces A and B as IdlInterface.__init__ returns them,     *)
(* then merge and inherite calls between them.  call records the last      *)
(* call: its receiver, its argument and the interfaces before it.          *)
(***************************************************************************)
Ifaces == {"A", "B"}

MergeChildren ==
    AttributeNodes \cup OperationNodes \cup ConstNodes \cup MergeExtAttributesNodes
        \cup StringifierNodes \cup { ConstructorNode(NoArgs, <<>>) }


Init ==
    /\ \E n \in 0..MaxNodes : \E s \in [1..n -> MergeChildren] : \E k \in 0..n :
          node = ("A" :> SubSeq(s, 1, k)) @@ ("B" :> SubSeq(s, k + 1, n))
    /\ \A i \in Ifaces : WellFormed(node[i]) /\ ~IdlInterface(i, node[i]).raised
    /\ interfaces = [i \in Ifaces |-> IdlInterface(i, node[i]).self]
    /\ frame = None
    /\ pc = "ok"
    /\ call = [op |-> "none"]
    /\ ncalls = 0
    /\ NoEntities

\* interfaces[a].merge(interfaces[b])
Merge(a, b) ==
    /\ ncalls < MaxCalls
    /\ \E exposed \in ExposedLists(interfaces[a].extended_attributes,
                                   interfaces[b].extended_attributes) :
          interfaces' = [interfaces EXCEPT
                           ![a] = merge(interfaces[a], interfaces[b], exposed)]
    /\ call' = [op |-> "merge", self |-> a, other |-> b, pre |-> interfaces]
    /\ ncalls' = ncalls + 1
    /\ UNCHANGED <<node, frame, pc, entityVars>>

\* interfaces[a].inherite(interfaces[b])
Inherite(a, b) ==
    /\ ncalls < MaxCalls
    /\ \E exposed \in ExposedLists(interfaces[a].extended_attributes,
                                   interfaces[b].extended_attributes) :
          interfaces' = [interfaces EXCEPT
                           ![a] = inherite(interfaces[a], interfaces[b], exposed)]
    /\ call' = [op |-> "inherite", self |-> a, other |-> b, pre |-> interfaces]
    /\ ncalls' = ncalls + 1
    /\ UNCHANGED <<node, frame, pc, entityVars>>

Next ==
    \/ \E a \in Ifaces : \E b \in Ifaces \ {a} : Merge(a, b)
    \/ \E a \in Ifaces : \E b \in Ifaces \ {a} : Inherite(a, b)

Spec == Init /\ [][Next]_vars

(***************************************************************************)
(* Type values and the translation of type syntax nodes.  A type value is  *)
(* a tagged record: a leaf type with its name, Nullable, Sequence,         *)
(* FrozenArray, Union and Promise (ordered members), Record (key, value)   *)
(* and Annotated (inner type, extended attributes).                        *)
(***************************************************************************)
\* depth of the type syntax nodes that SpecTypes translates
MaxTypeDepth == 2

IdlType(name, is_unrestricted) ==
    [t |-> "IdlType", name |-> name, is_unrestricted |-> is_unrestricted]

IdlNullableType(inner_type) == [t |-> "Nullable", inner_type |-> inner_type]

IdlSequenceType(element_type) == [t |-> "Sequence", element_type |-> element_type]

IdlFrozenArrayType(element_type) ==
    [t |-> "FrozenArray", element_type |-> element_type]

IdlUnionType(member_types) == [t |-> "Union", member_types |-> member_types]

IdlPromiseType(member_types) == [t |-> "Promise", member_types |-> member_types]

IdlRecordType(key_type, value_type) ==
    [t |-> "Record", key_type |-> key_type, value_type |-> value_type]

IdlAnnotatedType(inner_type, extended_attributes) ==
    [t |-> "Annotated", inner_type |-> inner_type,
     extended_attributes |-> extended_attributes]

\* a Type node: one child, or a child and an ExtAttributes node
TypeNode(children, nullable) ==
    [class |-> "Type", name |-> "", NULLABLE |-> nullable, UNRESTRICTED |-> FALSE,
     children |-> children]

\* a node below a Type node: PrimitiveType, StringType, Typeref, Any,
\* Sequence, FrozenArray, UnionType, Promise, Record
InnerTypeNode(class, name, children, nullable) ==
    [class |-> class, name |-> name, NULLABLE |-> nullable, UNRESTRICTED |-> FALSE,
     children |-> children]

\* the result of a translation that raised
TypeError == [raised |-> TRUE, v |-> None]

TypeOk(v) == [raised |-> FALSE, v |-> v]

\* a wrapping that applies Nullable before the Annotated wrapper
WrapNullableFirst(base_type, annotated, extended_attributes, nullable) ==
    LET b == IF nullable THEN IdlNullableType(base_type) ELSE base_type
    IN  IF annotated THEN IdlAnnotatedType(b, extended_attributes) ELSE b

\* type_node_to_type, after the first child is translated: the Annotated
\* wrapper of a second child, then Nullable for the NULLABLE property
WrapType(base_type, annotated, extended_attributes, nullable) ==
    LET b == IF annotated THEN IdlAnnotatedType(base_type, extended_attributes)
             ELSE base_type
    IN  IF nullable THEN IdlNullableType(b) ELSE b

\* a list of members that joins the members of a member union to its own
FlattenedMembers(member_types) ==
    LET RECURSIVE From(_)
        From(k) ==
            IF k > Len(member_types) THEN <<>>
            ELSE (IF member_types[k].t = "Union" THEN member_types[k].member_types
                  ELSE <<member_types[k]>>) \o From(k + 1)
    IN  From(1)

\* the member list of a union or promise: [type_node_to_type(m) for m in
\* node.GetChildren()], from translated members
MemberTypes(member_types) == member_types

RECURSIVE type_node_to_type(_), type_node_inner_to_type(_)

\* [type_node_to_type(child) for child in children]: [raised, v]
TypesOfNodes(children) ==
    LET r == [k \in DOMAIN children |-> type_node_to_type(children[k])]
    IN  IF \E k \in DOMAIN r : r[k].raised THEN TypeError
        ELSE TypeOk([k \in DOMAIN r |-> r[k].v])

\* sequence_node_to_type
sequence_node_to_type(n) ==
    IF Len(n.children) # 1 THEN TypeError
    ELSE IF n.children[1].class # "Type" THEN TypeError
    ELSE LET element_type == type_node_to_type(n.children[1])
             sequence_type == IF n.class = "Sequence"
                              THEN IdlSequenceType(element_type.v)
                              ELSE IdlFrozenArrayType(element_type.v)
         IN  IF element_type.raised THEN TypeError
             ELSE IF n.class \notin {"Sequence", "FrozenArray"} THEN TypeError
             ELSE IF n.NULLABLE THEN TypeOk(IdlNullableType(sequence_type))
             ELSE TypeOk(sequence_type)

\* union_type_node_to_idl_union_type
union_type_node_to_idl_union_type(n) ==
    LET member_types == TypesOfNodes(n.children)
    IN  IF member_types.raised THEN TypeError
        ELSE TypeOk(IdlUnionType(MemberTypes(member_types.v)))

\* promise_node_to_type
promise_node_to_type(n) ==
    LET member_types == TypesOfNodes(n.children)
    IN  IF member_types.raised THEN TypeError
        ELSE TypeOk(IdlPromiseType(member_types.v))

\* record_node_to_type
record_node_to_type(n) ==
    IF Len(n.children) # 2 THEN TypeError
    ELSE IF n.children[1].class # "StringType" THEN TypeError
    ELSE IF n.children[2].class # "Type" THEN TypeError
    ELSE LET value_type == type_node_to_type(n.children[2])
         IN  IF value_type.raised THEN TypeError
             ELSE TypeOk(IdlRecordType(IdlType(n.children[1].name, FALSE),
                                       value_type.v))

\* type_node_inner_to_type
type_node_inner_to_type(n) ==
    CASE n.class \in {"PrimitiveType", "StringType", "Typeref"} ->
            TypeOk(IdlType(n.name, n.UNRESTRICTED))
      [] n.class = "Any" -> TypeOk(IdlType("any", FALSE))
      [] n.class \in {"Sequence", "FrozenArray"} -> sequence_node_to_type(n)
      [] n.class = "UnionType" -> union_type_node_to_idl_union_type(n)
      [] n.class = "Promise" -> promise_node_to_type(n)
      [] n.class = "Record" -> record_node_to_type(n)
      [] OTHER -> TypeError

\* type_node_to_type
type_node_to_type(n) ==
    IF Len(n.children) \notin {1, 2} THEN TypeError
    ELSE LET base_type == type_node_inner_to_type(n.children[1])
             annotated == Len(n.children) = 2
             ea == IF annotated
                   THEN ext_attributes_node_to_extended_attributes(
                            n.children[2].children, <<"t">>)
                   ELSE [raised |-> FALSE, d |-> EmptyDict]
         IN  IF base_type.raised \/ ea.raised THEN TypeError
             ELSE TypeOk(WrapType(base_type.v, annotated, ea.d, n.NULLABLE))

(***************************************************************************)
(* SpecTypes: a Type node is grown from a leaf, one level per step, and    *)
(* translated.  typenode holds the node, its depth and what                *)
(* type_node_to_type made of it.                                           *)
(***************************************************************************)
\* the nodes of the leaf types, and one of a class the translator rejects
LeafNodes ==
    { InnerTypeNode("PrimitiveType", "long", <<>>, FALSE),
      InnerTypeNode("StringType", "DOMString", <<>>, FALSE),
      InnerTypeNode("Typeref", "Foo", <<>>, FALSE),
      InnerTypeNode("Any", "", <<>>, FALSE),
      InnerTypeNode("Void", "", <<>>, FALSE) }

\* no second child, or the ExtAttributes node of [Clamp]
TypeAnnotations ==
    { <<>>, <<ExtAttributesNode(<<ExtAttribute("Clamp", None, <<>>)>>)>> }

\* the Type nodes around this inner node: NULLABLE or not, annotated or not
TypeNodesAround(inner) ==
    { TypeNode(<<inner>> \o a, nullable) : a \in TypeAnnotations, nullable \in BOOLEAN }

LongTypeNode == TypeNode(<<InnerTypeNode("PrimitiveType", "long", <<>>, FALSE)>>, FALSE)

Translated(n, depth) == [node |-> n, depth |-> depth, type |-> type_node_to_type(n)]

InitTypes ==
    /\ \E inner \in LeafNodes : \E n \in TypeNodesAround(inner) :
          typenode = Translated(n, 0)
    /\ typedefs = EmptyDict
    /\ enumerations = EmptyDict
    /\ root = None
    /\ definitions = None
    /\ interfaces = EmptyDict
    /\ node = EmptyDict
    /\ frame = None
    /\ pc = "types"
    /\ call = [op |-> "none"]
    /\ ncalls = 0

\* the node translated without raising, and may be put one level deeper
CanGrow == typenode.depth < MaxTypeDepth /\ ~typenode.type.raised

\* the node becomes the child of this inner node, in a new Type node
Grow(inner) ==
    /\ \E n \in TypeNodesAround(inner) :
          typenode' = Translated(n, typenode.depth + 1)
    /\ UNCHANGED <<interfaceVars, typedefs, enumerations, root, definitions>>

\* sequence<T>, with the NULLABLE property on the Sequence node or not
GrowSequence ==
    /\ CanGrow
    /\ \E nullable \in BOOLEAN :
          Grow(InnerTypeNode("Sequence", "", <<typenode.node>>, nullable))

\* FrozenArray<T>
GrowFrozenArray ==
    /\ CanGrow
    /\ Grow(InnerTypeNode("FrozenArray", "", <<typenode.node>>, FALSE))

\* (T or long) and (long or T)
GrowUnion ==
    /\ CanGrow
    /\ \E members \in {<<typenode.node, LongTypeNode>>, <<LongTypeNode, typenode.node>>} :
          Grow(InnerTypeNode("UnionType", "", members, FALSE))

\* Promise<T>
GrowPromise ==
    /\ CanGrow
    /\ Grow(InnerTypeNode("Promise", "", <<typenode.node>>, FALSE))

\* record<DOMString, T>, and a record whose key is not a string type
GrowRecord ==
    /\ CanGrow
    /\ \E key \in {InnerTypeNode("StringType", "DOMString", <<>>, FALSE),
                  InnerTypeNode("PrimitiveType", "long", <<>>, FALSE)} :
          Grow(InnerTypeNode("Record", "", <<key, typenode.node>>, FALSE))

NextTypes ==
    \/ GrowSequence
    \/ GrowFrozenArray
    \/ GrowUnion
    \/ GrowPromise
    \/ GrowRecord

SpecTypes == InitTypes /\ [][NextTypes]_vars

(***************************************************************************)
(* Typedefs and enums.                                                     *)
(***************************************************************************)
TypedefNode(name, children) == [class |-> "Typedef", name |-> name, children |-> children]

\* children are the EnumItem nodes, kept to their names
EnumNode(name, children) == [class |-> "Enum", name |-> name, children |-> children]

\* typedef_node_to_type
typedef_node_to_type(n) ==
    IF Len(n.children) # 1 THEN TypeError
    ELSE IF n.children[1].class # "Type" THEN TypeError
    ELSE type_node_to_type(n.children[1])

\* IdlTypeBase.is_union_type: the type value is the union variant
is_union_type(idl_type) == idl_type.t = "Union"

\* IdlUnionType.merge: the member list is extended with the other union's
IdlUnionType_merge(self, other) ==
    [self EXCEPT !.member_types = @ \o other.member_types]

\* a typedef that stores the parsed type as it is
StoredAsParsed(parse_type) == parse_type

\* IdlTypedef.__init__: the type that is stored for the parsed type
StoredType(parse_type) ==
    IF is_union_type(parse_type) THEN parse_type ELSE IdlUnionType(<<parse_type>>)

\* IdlTypedef.__init__: [raised, v]
IdlTypedef(n) ==
    LET parse_type == typedef_node_to_type(n)
    IN  IF parse_type.raised THEN [raised |-> TRUE, v |-> None]
        ELSE [raised |-> FALSE,
              v |-> [t |-> "IdlTypedef", name |-> n.name,
                     idl_type |-> StoredType(parse_type.v)]]

\* IdlTypedef.merge
IdlTypedef_merge(self, other) ==
    [self EXCEPT !.idl_type = IdlUnionType_merge(@, other.idl_type)]

\* IdlEnum.__init__
IdlEnum(n) == [t |-> "IdlEnum", name |-> n.name, values |-> n.children]

\* a merge that only extends the list
ExtendedValues(self, other, values) == self.values \o other.values

\* IdlEnum.merge: the list that list(set(self.values)) makes after the
\* extension, values being the order in which the set is iterated
MergedValues(self, other, values) == values

\* the lists that list(set(self.values + other.values)) can be
ValueLists(self, other) == SeqsOf(Range(self.values \o other.values))

\* IdlEnum.merge
IdlEnum_merge(self, other, values) ==
    [self EXCEPT !.values = MergedValues(self, other, values)]

(***************************************************************************)
(* SpecEntities: the typedef T and the enum E as two files declare them,   *)
(* then any sequence of merges of one declaration into the other.          *)
(***************************************************************************)
Files == {"a.idl", "b.idl"}

ClampedLong ==
    TypeNode(<<InnerTypeNode("PrimitiveType", "long", <<>>, FALSE),
               ExtAttributesNode(<<ExtAttribute("Clamp", None, <<>>)>>)>>, FALSE)

\* (long or DOMString), NULLABLE or not
LongOrString(nullable) ==
    TypeNode(<<InnerTypeNode("UnionType", "",
                   <<LongTypeNode,
                     TypeNode(<<InnerTypeNode("StringType", "DOMString", <<>>, FALSE)>>,
                              FALSE)>>, FALSE)>>, nullable)

\* typedef long T; typedef long? T; typedef [Clamp] long T;
\* typedef (long or DOMString) T; typedef (long or DOMString)? T
TypedefNodes ==
    { TypedefNode("T", <<n>>) :
        n \in { LongTypeNode,
                TypeNode(<<InnerTypeNode("PrimitiveType", "long", <<>>, FALSE)>>, TRUE),
                ClampedLong, LongOrString(FALSE), LongOrString(TRUE) } }

\* enum E { "A", "B" }; enum E { "B", "C" }; enum E { "A" }
EnumNodes ==
    { EnumNode("E", values) : values \in {<<"A", "B">>, <<"B", "C">>, <<"A">>} }

InitEntities ==
    /\ \E t \in [Files -> TypedefNodes] :
          /\ \A f \in Files : ~IdlTypedef(t[f]).raised
          /\ typedefs = [f \in Files |-> IdlTypedef(t[f]).v]
    /\ \E e \in [Files -> EnumNodes] :
          enumerations = [f \in Files |-> IdlEnum(e[f])]
    /\ typenode = None
    /\ root = None
    /\ definitions = None
    /\ interfaces = EmptyDict
    /\ node = EmptyDict
    /\ frame = None
    /\ pc = "entities"
    /\ call = [op |-> "none"]
    /\ ncalls = 0

\* typedefs[a].merge(typedefs[b])
TypedefMerge(a, b) ==
    /\ ncalls < MaxCalls
    /\ typedefs' = [typedefs EXCEPT ![a] = IdlTypedef_merge(typedefs[a], typedefs[b])]
    /\ call' = [op |-> "typedef", self |-> a, other |-> b, pre |-> typedefs]
    /\ ncalls' = ncalls + 1
    /\ UNCHANGED <<interfaces, node, frame, pc, typenode, enumerations, root,
                   definitions>>

\* enumerations[a].merge(enumerations[b])
EnumMerge(a, b) ==
    /\ ncalls < MaxCalls
    /\ \E values \in ValueLists(enumerations[a], enumerations[b]) :
          enumerations' = [enumerations EXCEPT
                              ![a] = IdlEnum_merge(enumerations[a], enumerations[b],
                                                   values)]
    /\ call' = [op |-> "enum", self |-> a, other |-> b, pre |-> enumerations]
    /\ ncalls' = ncalls + 1
    /\ UNCHANGED <<interfaces, node, frame, pc, typenode, typedefs, root, definitions>>

NextEntities ==
    \/ \E a \in Files : \E b \in Files \ {a} : TypedefMerge(a, b)
    \/ \E a \in Files : \E b \in Files \ {a} : EnumMerge(a, b)

SpecEntities == InitEntities /\ [][NextEntities]_vars

(***************************************************************************)
(* The top-level container.                                                *)
(***************************************************************************)
\* top-level children of the root node that SpecFile feeds to __init__
MaxFileChildren == 3

InterfaceNode(name, children) ==
    [class |-> "Interface", name |-> name, children |-> children]

\* partial interface name { children }
PartialInterfaceNode(name, children) ==
    [class |-> "Interface", name |-> name, children |-> children, PARTIAL |-> TRUE]

\* children: a Type node and an Arguments node, then maybe an ExtAttributes
CallbackNode(name, children) ==
    [class |-> "Callback", name |-> name, children |-> children]

IncludesNode(name, reference) ==
    [class |-> "Includes", name |-> name, REFERENCE |-> reference]

\* children: Inherit, Key and ExtAttributes nodes
DictionaryNode(name, children) ==
    [class |-> "Dictionary", name |-> name, children |-> children]

KeyNode(name, children) == [class |-> "Key", name |-> name, children |-> children]

\* bool(node.GetProperty('PARTIAL'))
IsPartial(n) == "PARTIAL" \in DOMAIN n /\ n.PARTIAL

\* IdlCallbackFunction.__init__: [raised, v]
IdlCallbackFunction(n) ==
    LET num_children == Len(n.children)
        ea == IF num_children = 3
              THEN ext_attributes_node_to_extended_attributes(
                       n.children[3].children, <<n.name>>)
              ELSE [raised |-> FALSE, d |-> EmptyDict]
        idl_type == type_node_to_type(n.children[1])
    IN  IF num_children < 2 \/ num_children > 3 THEN [raised |-> TRUE, v |-> None]
        ELSE IF ea.raised THEN [raised |-> TRUE, v |-> None]
        ELSE IF n.children[2].class # "Arguments" THEN [raised |-> TRUE, v |-> None]
        ELSE IF idl_type.raised THEN [raised |-> TRUE, v |-> None]
        ELSE [raised |-> FALSE,
              v |-> [t |-> "IdlCallbackFunction", name |-> n.name,
                     idl_type |-> idl_type.v, extended_attributes |-> ea.d,
                     arguments |-> arguments_node_to_arguments(n.children[2])]]

\* IdlDictionaryMember.__init__: [raised, v].  The Key nodes fed to it have
\* Type children or children of a class it does not know; default_value and
\* extended_attributes stay as they start
IdlDictionaryMember(n) ==
    LET RECURSIVE From(_, _)
        From(acc, k) ==
            IF k > Len(n.children) \/ acc.raised THEN acc
            ELSE LET child == n.children[k]
                 IN  CASE child.class = "Type" ->
                            LET idl_type == type_node_to_type(child)
                            IN  IF idl_type.raised THEN [acc EXCEPT !.raised = TRUE]
                                ELSE From([acc EXCEPT !.v.idl_type = idl_type.v], k + 1)
                       [] child.class \in {"Default", "ExtAttributes"} ->
                            From(acc, k + 1)
                       [] OTHER -> [acc EXCEPT !.raised = TRUE]
    IN  From([raised |-> FALSE,
              v |-> [t |-> "IdlDictionaryMember", name |-> n.name,
                     idl_type |-> None]], 1)

\* IdlDictionary.__init__: [raised, v]
IdlDictionary(n) ==
    LET RECURSIVE From(_, _)
        From(acc, k) ==
            IF k > Len(n.children) \/ acc.raised THEN acc
            ELSE LET child == n.children[k]
                 IN  CASE child.class = "Inherit" ->
                            From([acc EXCEPT !.v.parent = PyStr(child.name)], k + 1)
                       [] child.class = "Key" ->
                            LET m == IdlDictionaryMember(child)
                            IN  IF m.raised THEN [acc EXCEPT !.raised = TRUE]
                                ELSE From([acc EXCEPT !.v.members = Append(@, m.v)],
                                          k + 1)
                       [] child.class = "ExtAttributes" ->
                            LET ea == ext_attributes_node_to_extended_attributes(
                                          child.children, <<n.name, k>>)
                            IN  IF ea.raised THEN [acc EXCEPT !.raised = TRUE]
                                ELSE From([acc EXCEPT !.v.extended_attributes = ea.d],
                                          k + 1)
                       [] OTHER -> [acc EXCEPT !.raised = TRUE]
    IN  From([raised |-> FALSE,
              v |-> [t |-> "IdlDictionary", name |-> n.name, members |-> <<>>,
                     is_partial |-> IsPartial(n), parent |-> None,
                     extended_attributes |-> EmptyDict]], 1)

\* IdlIncludes.__init__
IdlIncludes(n) == [t |-> "IdlIncludes", interface |-> n.name, mixin |-> n.REFERENCE]

\* the fields IdlDefinitions.__init__ sets before it looks at the node
\* order[f] is the order in which the dict f iterates: the keys in the
\* order of their first insertion
NewDefinitions ==
    [callback_functions |-> EmptyDict, dictionaries |-> EmptyDict,
     enumerations |-> EmptyDict, includes |-> <<>>, interfaces |-> EmptyDict,
     first_name |-> None, typedefs |-> EmptyDict,
     order |-> [f \in {"callback_functions", "dictionaries", "enumerations",
                       "interfaces", "typedefs"} |-> <<>>]]

\* the iteration order of a dict after d[k] = v: an existing key keeps its
\* place, a new one goes last
KeyOrder(keys, k) ==
    IF \E i \in DOMAIN keys : keys[i] = k THEN keys ELSE Append(keys, k)

\* if not self.first_name: self.first_name = name
FirstName(self, name) == IF Truthy(self.first_name) THEN self.first_name ELSE PyStr(name)

\* IdlInterface(node), for a node that may carry the PARTIAL property
IdlInterfaceOf(n) ==
    LET r == IdlInterface(n.name, n.children)
    IN  [r EXCEPT !.self.is_partial = IsPartial(n)]

\* child_class == 'Interface'
DefinitionsInterface(st, child) ==
    LET r == IdlInterfaceOf(child)
    IN  IF r.raised THEN Raise(st)
        ELSE [st EXCEPT !.self.interfaces = DictSet(@, child.name, r.self),
                        !.self.order.interfaces = KeyOrder(@, child.name),
                        !.self.first_name = FirstName(st.self, child.name)]

\* child_class == 'Typedef'
DefinitionsTypedef(st, child) ==
    LET r == IdlTypedef(child)
    IN  IF r.raised THEN Raise(st)
        ELSE [st EXCEPT !.self.typedefs = DictSet(@, child.name, r.v),
                        !.self.order.typedefs = KeyOrder(@, child.name)]

\* child_class == 'Enum'
DefinitionsEnum(st, child) ==
    [st EXCEPT !.self.enumerations = DictSet(@, child.name, IdlEnum(child)),
               !.self.order.enumerations = KeyOrder(@, child.name)]

\* child_class == 'Callback'
DefinitionsCallback(st, child) ==
    LET r == IdlCallbackFunction(child)
    IN  IF r.raised THEN Raise(st)
        ELSE [st EXCEPT !.self.callback_functions = DictSet(@, child.name, r.v),
                        !.self.order.callback_functions = KeyOrder(@, child.name)]

\* child_class == 'Includes'
DefinitionsIncludes(st, child) ==
    [st EXCEPT !.self.includes = Append(@, IdlIncludes(child))]

\* child_class == 'Dictionary'
DefinitionsDictionary(st, child) ==
    LET r == IdlDictionary(child)
    IN  IF r.raised THEN Raise(st)
        ELSE [st EXCEPT !.self.dictionaries = DictSet(@, child.name, r.v),
                        !.self.order.dictionaries = KeyOrder(@, child.name),
                        !.self.first_name = FirstName(st.self, child.name)]

\* a loop that passes over a child of a class it does not know
DefinitionsSkip(st, child) == st

\* else: raise ValueError('Unrecognized node class: %s' % child_class)
DefinitionsUnrecognized(st, child) == Raise(st)

\* the branch of the loop in IdlDefinitions.__init__ that the child's class
\* selects
DefinitionsChild(st, child) ==
    CASE child.class = "Interface"  -> DefinitionsInterface(st, child)
      [] child.class = "Typedef"    -> DefinitionsTypedef(st, child)
      [] child.class = "Enum"       -> DefinitionsEnum(st, child)
      [] child.class = "Callback"   -> DefinitionsCallback(st, child)
      [] child.class = "Includes"   -> DefinitionsIncludes(st, child)
      [] child.class = "Dictionary" -> DefinitionsDictionary(st, child)
      [] OTHER                      -> DefinitionsUnrecognized(st, child)

RECURSIVE DefinitionsChildren(_, _, _)
\* the loop over node.GetChildren(), from child k on
DefinitionsChildren(st, children, k) ==
    IF k > Len(children) \/ st.raised THEN st
    ELSE DefinitionsChildren(DefinitionsChild(st, children[k]), children, k + 1)

\* IdlDefinitions(node): [raised, self]
IdlDefinitions(n) ==
    IF n.class # "File" THEN [self |-> NewDefinitions, raised |-> TRUE]
    ELSE DefinitionsChildren([self |-> NewDefinitions, raised |-> FALSE], n.children, 1)

\* dict.update(other) for two dicts of a container with their key orders
DictUpdateOrdered(self, other, field) ==
    LET RECURSIVE Keys(_, _)
        Keys(keys, k) ==
            IF k > Len(other.order[field]) THEN keys
            ELSE Keys(KeyOrder(keys, other.order[field][k]), k + 1)
    IN  [self EXCEPT ![field] = DictUpdate(@, other[field]),
                     !.order[field] = Keys(@, 1)]

\* the statements of update that copy the enumerations and the callback
\* functions
UpdateEntities(self, other) ==
    DictUpdateOrdered(DictUpdateOrdered(self, other, "enumerations"),
                      other, "callback_functions")

\* one pass of the loop of update over other.interfaces.items(): the
\* container after it, raised when no interface of that name exists.  The
\* interfaces merged here carry no Exposed list, so merge builds none.
UpdateInterface(st, other, interface_name) ==
    LET self == st.self
        new_interface == other.interfaces[interface_name]
    IN  IF ~new_interface.is_partial
        THEN [st EXCEPT !.self.interfaces = DictSet(@, interface_name, new_interface),
                        !.self.order.interfaces = KeyOrder(@, interface_name)]
        ELSE IF interface_name \notin DOMAIN self.interfaces THEN Raise(st)
        ELSE [st EXCEPT
                !.self = UpdateEntities(
                    [self EXCEPT !.interfaces[interface_name] =
                                     merge(@, new_interface, <<>>)],
                    other)]

RECURSIVE UpdateInterfaces(_, _, _)
\* the loop of update, from the k-th interface of other on
UpdateInterfaces(st, other, k) ==
    IF k > Len(other.order.interfaces) \/ st.raised THEN st
    ELSE UpdateInterfaces(UpdateInterface(st, other, other.order.interfaces[k]),
                          other, k + 1)

\* IdlDefinitions.update: [raised, self]
update(self, other) == UpdateInterfaces([self |-> self, raised |-> FALSE], other, 1)

(***************************************************************************)
(* Traversal.  accept is modelled by the sequence of visit calls it makes  *)
(* on the visitor: the visit operation and the name of the entity.         *)
(***************************************************************************)
Visit(operation, name) == [visit |-> operation, name |-> name]

RECURSIVE Flatten(_)
\* the concatenation of a sequence of sequences
Flatten(seqs) == IF seqs = <<>> THEN <<>> ELSE Head(seqs) \o Flatten(Tail(seqs))

\* IdlArgument.accept
IdlArgument_accept(self) == <<Visit("visit_argument", self.name)>>

\* for x in xs: x.accept(visitor), Accept(x) being the visits of x.accept
AcceptEach(xs, Accept(_)) == Flatten([k \in DOMAIN xs |-> Accept(xs[k])])

\* IdlOperation.accept
IdlOperation_accept(self) ==
    <<Visit("visit_operation", self.name)>>
        \o AcceptEach(self.arguments, IdlArgument_accept)

\* IdlAttribute.accept
IdlAttribute_accept(self) == <<Visit("visit_attribute", self.name)>>

\* IdlConstant.accept
IdlConstant_accept(self) == <<Visit("visit_constant", self.name)>>

\* IdlIterable.accept / IdlMaplike.accept / IdlSetlike.accept
IdlIterableOrMaplikeOrSetlike_accept(self) ==
    <<Visit(CASE self.t = "Iterable" -> "visit_iterable"
              [] self.t = "Maplike"  -> "visit_maplike"
              [] OTHER               -> "visit_setlike", "")>>

\* if self.iterable: ... elif self.maplike: ... elif self.setlike: ...
AcceptIterable(self) ==
    IF self.iterable # None THEN IdlIterableOrMaplikeOrSetlike_accept(self.iterable)
    ELSE IF self.maplike # None THEN IdlIterableOrMaplikeOrSetlike_accept(self.maplike)
    ELSE IF self.setlike # None THEN IdlIterableOrMaplikeOrSetlike_accept(self.setlike)
    ELSE <<>>

\* a traversal that visits the operations before the attributes
IdlInterface_acceptOperationsFirst(self) ==
    <<Visit("visit_interface", self.name)>>
        \o AcceptEach(self.operations, IdlOperation_accept)
        \o AcceptEach(self.attributes, IdlAttribute_accept)
        \o AcceptEach(self.constants, IdlConstant_accept)
        \o AcceptEach(self.constructors, IdlOperation_accept)
        \o AcceptEach(self.custom_constructors, IdlOperation_accept)
        \o AcceptIterable(self)

\* IdlInterface.accept
IdlInterface_accept(self) ==
    <<Visit("visit_interface", self.name)>>
        \o AcceptEach(self.attributes, IdlAttribute_accept)
        \o AcceptEach(self.constants, IdlConstant_accept)
        \o AcceptEach(self.constructors, IdlOperation_accept)
        \o AcceptEach(self.custom_constructors, IdlOperation_accept)
        \o AcceptEach(self.operations, IdlOperation_accept)
        \o AcceptIterable(self)

\* IdlCallbackFunction.accept
IdlCallbackFunction_accept(self) ==
    <<Visit("visit_callback_function", self.name)>>
        \o AcceptEach(self.arguments, IdlArgument_accept)

\* IdlDictionaryMember.accept
IdlDictionaryMember_accept(self) == <<Visit("visit_dictionary_member", self.name)>>

\* IdlDictionary.accept
IdlDictionary_accept(self) ==
    <<Visit("visit_dictionary", self.name)>>
        \o AcceptEach(self.members, IdlDictionaryMember_accept)

\* IdlEnum.accept
IdlEnum_accept(self) == <<Visit("visit_enumeration", self.name)>>

\* IdlIncludes.accept
IdlIncludes_accept(self) == <<Visit("visit_include", self.interface)>>

\* IdlTypedef.accept
IdlTypedef_accept(self) == <<Visit("visit_typedef", self.name)>>

\* for x in self.<field>.values(): x.accept(visitor)
AcceptValues(self, field, Accept(_)) ==
    Flatten([k \in DOMAIN self.order[field] |->
                Accept(self[field][self.order[field][k]])])

\* IdlDefinitions.accept
IdlDefinitions_accept(self) ==
    <<Visit("visit_definitions", "")>>
        \o AcceptValues(self, "interfaces", IdlInterface_accept)
        \o AcceptValues(self, "callback_functions", IdlCallbackFunction_accept)
        \o AcceptValues(self, "dictionaries", IdlDictionary_accept)
        \o AcceptValues(self, "enumerations", IdlEnum_accept)
        \o AcceptEach(self.includes, IdlIncludes_accept)
        \o AcceptValues(self, "typedefs", IdlTypedef_accept)

(***************************************************************************)
(* SpecFile: IdlDefinitions.__init__ on a root node, one top-level child   *)
(* per step.  root holds the node's class and the children read so far,    *)
(* frame the container under construction, definitions what the caller     *)
(* gets: None until the constructor returns.                               *)
(***************************************************************************)
\* interface I {}; an interface with one attribute; one with a child of an
\* unknown class; one that is iterable and setlike; one with members of
\* every kind
FileInterfaceNodes ==
    { InterfaceNode("I", <<>>),
      InterfaceNode("J", <<CHOOSE a \in AttributeNodes : TRUE>>),
      InterfaceNode("K", <<CHOOSE u \in UnrecognizedNodes : TRUE>>),
      InterfaceNode("L", <<IterableNode("Iterable", <<"DOMString", "long">>),
                           IterableNode("Setlike", <<"long">>)>>),
      \* interface M { void foo(long a); attribute long x; const long C = 1;
      \*               constructor(long a); stringifier attribute DOMString s;
      \*               maplike<DOMString, long>; }
      InterfaceNode("M", <<OperationNode("foo", FALSE, {}, <<ArgumentNode("long", "a")>>, <<>>),
                           AttributeNode("x", "long", FALSE, <<>>),
                           ConstNode("C", "1"),
                           ConstructorNode(OneArg, <<>>),
                           StringifierNode(AttributeNode("s", "DOMString", FALSE, <<>>),
                                           None, <<>>),
                           IterableNode("Maplike", <<"DOMString", "long">>)>>) }

\* typedef long T; a Typedef node without children
FileTypedefNodes == { TypedefNode("T", <<LongTypeNode>>), TypedefNode("U", <<>>) }

FileEnumNodes == { EnumNode("E", <<"A", "B">>) }

\* callback C = long (); a Callback node with one child; one whose second
\* child is not an Arguments node
FileCallbackNodes ==
    { CallbackNode("C", <<LongTypeNode, ArgumentsNode(<<>>)>>),
      CallbackNode("F", <<LongTypeNode>>),
      CallbackNode("G", <<LongTypeNode, ExtAttributesNode(<<>>)>>) }

\* I includes M;
FileIncludesNodes == { IncludesNode("I", "M") }

\* dictionary D { long k; }; a dictionary with a child of an unknown class
FileDictionaryNodes ==
    { DictionaryNode("D", <<KeyNode("k", <<LongTypeNode>>)>>),
      DictionaryNode("H", <<[class |-> "Attribute", name |-> "a"]>>) }

\* a top-level child whose class IdlDefinitions.__init__ does not recognise
FileUnrecognizedNodes == { [class |-> "Namespace", name |-> "N"] }

\* the classes a root node is given with
RootClasses == {"File", "Interface"}

InitFile ==
    /\ \E class \in RootClasses : root = [class |-> class, children |-> <<>>]
    /\ frame = [self |-> NewDefinitions, raised |-> FALSE]
    /\ pc = "start"
    /\ definitions = None
    /\ typenode = None
    /\ typedefs = EmptyDict
    /\ enumerations = EmptyDict
    /\ interfaces = EmptyDict
    /\ node = EmptyDict
    /\ call = [op |-> "none"]
    /\ ncalls = 0

\* if node_class != 'File': raise ValueError
FileStart ==
    /\ pc = "start"
    /\ pc' = IF root.class # "File" THEN "raised" ELSE "loop"
    /\ frame' = IF root.class # "File" THEN Raise(frame) ELSE frame
    /\ UNCHANGED <<root, definitions, typenode, typedefs, enumerations,
                   interfaces, node, call, ncalls>>

\* the loop reads one more child; st is the frame after the branch of its class
FileStep(child, st) ==
    /\ Len(root.children) < MaxFileChildren
    /\ frame' = st
    /\ pc' = IF st.raised THEN "raised" ELSE "loop"
    /\ root' = [root EXCEPT !.children = Append(@, child)]
    /\ UNCHANGED <<definitions, typenode, typedefs, enumerations,
                   interfaces, node, call, ncalls>>

FileInterface ==
    /\ pc = "loop"
    /\ \E child \in FileInterfaceNodes : FileStep(child, DefinitionsInterface(frame, child))

FileTypedef ==
    /\ pc = "loop"
    /\ \E child \in FileTypedefNodes : FileStep(child, DefinitionsTypedef(frame, child))

FileEnum ==
    /\ pc = "loop"
    /\ \E child \in FileEnumNodes : FileStep(child, DefinitionsEnum(frame, child))

FileCallback ==
    /\ pc = "loop"
    /\ \E child \in FileCallbackNodes : FileStep(child, DefinitionsCallback(frame, child))

FileIncludes ==
    /\ pc = "loop"
    /\ \E child \in FileIncludesNodes : FileStep(child, DefinitionsIncludes(frame, child))

FileDictionary ==
    /\ pc = "loop"
    /\ \E child \in FileDictionaryNodes :
          FileStep(child, DefinitionsDictionary(frame, child))

FileUnrecognized ==
    /\ pc = "loop"
    /\ \E child \in FileUnrecognizedNodes :
          FileStep(child, DefinitionsUnrecognized(frame, child))

\* the loop ends and the constructor returns the container
FileFinish ==
    /\ pc = "loop"
    /\ pc' = "ok"
    /\ definitions' = frame.self
    /\ UNCHANGED <<root, frame, typenode, typedefs, enumerations,
                   interfaces, node, call, ncalls>>

NextFile ==
    \/ FileStart
    \/ FileInterface
    \/ FileTypedef
    \/ FileEnum
    \/ FileCallback
    \/ FileIncludes
    \/ FileDictionary
    \/ FileUnrecognized
    \/ FileFinish

SpecFile == InitFile /\ [][NextFile]_vars

(***************************************************************************)
(* SpecUpdate: two containers a and b as IdlDefinitions builds them from   *)
(* two root nodes, then update calls between them.  definitions maps a     *)
(* and b to their containers, call records the last call.                  *)
(***************************************************************************)
\* top-level children of each of the two root nodes
MaxUnitChildren == 2

Units == {"a", "b"}

\* interface I { attribute long x; }; partial interface I { void foo(); };
\* interface J {}; enum E { "A" }; callback C = long ();
UnitNodes ==
    { InterfaceNode("I", <<AttributeNode("x", "long", FALSE, <<>>)>>),
      PartialInterfaceNode("I", <<OperationNode("foo", FALSE, {}, <<>>, <<>>)>>),
      InterfaceNode("J", <<>>),
      EnumNode("E", <<"A">>),
      CallbackNode("C", <<LongTypeNode, NoArgs>>) }

FileNode(children) == [class |-> "File", children |-> children]

InitUpdate ==
    /\ \E n \in [Units -> 0..MaxUnitChildren] :
          \E s \in [Units -> [1..MaxUnitChildren -> UnitNodes]] :
              root = [u \in Units |-> FileNode(SubSeq(s[u], 1, n[u]))]
    /\ \E built \in {[u \in Units |-> IdlDefinitions(root[u])]} :
          /\ \A u \in Units : ~built[u].raised
          /\ definitions = [u \in Units |-> built[u].self]
    /\ typenode = None
    /\ typedefs = EmptyDict
    /\ enumerations = EmptyDict
    /\ interfaces = EmptyDict
    /\ node = EmptyDict
    /\ frame = None
    /\ pc = "units"
    /\ call = [op |-> "none"]
    /\ ncalls = 0

\* definitions[a].update(definitions[b]); what update did before it raised
\* stays done
Update(a, b) ==
    /\ ncalls < MaxCalls
    /\ \E r \in {update(definitions[a], definitions[b])} :
          /\ definitions' = [definitions EXCEPT ![a] = r.self]
          /\ call' = [op |-> "update", self |-> a, other |-> b,
                      raised |-> r.raised, pre |-> definitions]
    /\ ncalls' = ncalls + 1
    /\ UNCHANGED <<root, typenode, typedefs, enumerations, interfaces, node,
                   frame, pc>>

NextUpdate == \E a \in Units : \E b \in Units \ {a} : Update(a, b)

SpecUpdate == InitUpdate /\ [][NextUpdate]_vars

(***************************************************************************)
(* Reading a file.                                                         *)
(***************************************************************************)
\* utilities.to_snake_case, on the names the files use
to_snake_case(name) ==
    CASE name = "FooBar" -> "foo_bar"
      [] name = "Baz"    -> "baz"
      [] OTHER           -> name

\* list(d.values()) of a dict of the container
Values(self, field) == [k \in DOMAIN self.order[field] |-> self[field][self.order[field][k]]]

\* a validation that holds a partial definition to the file's name as well
validate_partial_too(idl_file_basename, defs) ==
    LET targets == Values(defs, "interfaces") \o Values(defs, "dictionaries")
        number_of_targets == Len(targets)
        number_of_definitions ==
            Cardinality(DOMAIN defs.enumerations) + Cardinality(DOMAIN defs.typedefs)
                + Cardinality(DOMAIN defs.callback_functions)
    IN  IF number_of_targets > 1 THEN TRUE
        ELSE IF number_of_targets = 0 THEN number_of_definitions = 0
        ELSE /\ targets[1].name # idl_file_basename
             /\ to_snake_case(targets[1].name) # idl_file_basename

\* validate_blink_idl_definitions: TRUE when it raises
validate_blink_idl_definitions(idl_file_basename, defs) ==
    LET targets == Values(defs, "interfaces") \o Values(defs, "dictionaries")
        number_of_targets == Len(targets)
        number_of_definitions ==
            Cardinality(DOMAIN defs.enumerations) + Cardinality(DOMAIN defs.typedefs)
                + Cardinality(DOMAIN defs.callback_functions)
    IN  IF number_of_targets > 1 THEN TRUE
        ELSE IF number_of_targets = 0 THEN number_of_definitions = 0
        ELSE IF targets[1].is_partial THEN FALSE
        ELSE /\ targets[1].name # idl_file_basename
             /\ to_snake_case(targets[1].name) # idl_file_basename

(***************************************************************************)
(* SpecReader: IdlReader.read_idl_file on one file, statement by           *)
(* statement.  root is what the parser returned (None when it failed),     *)
(* call holds the file's basename, frame the container once built, and     *)
(* definitions what the caller gets.                                       *)
(***************************************************************************)
\* the top-level declarations of the files read
ReaderNodes ==
    { InterfaceNode("FooBar", <<>>),
      PartialInterfaceNode("FooBar", <<>>),
      InterfaceNode("Baz", <<>>),
      DictionaryNode("FooBar", <<>>),
      [class |-> "Dictionary", name |-> "Baz", children |-> <<>>, PARTIAL |-> TRUE],
      EnumNode("E", <<"A">>),
      TypedefNode("T", <<LongTypeNode>>),
      CallbackNode("C", <<LongTypeNode, NoArgs>>),
      [class |-> "Namespace", name |-> "N"] }

\* os.path.splitext(os.path.basename(idl_filename))[0] of the files read
Basenames == {"FooBar", "foo_bar", "Other"}

InitReader ==
    /\ \/ root = None
       \/ \E n \in 0..MaxUnitChildren : \E s \in [1..n -> ReaderNodes] :
             root = FileNode(s)
    /\ \E b \in Basenames : call = [op |-> "read_idl_file", idl_file_basename |-> b]
    /\ frame = None
    /\ pc = "parse"
    /\ definitions = None
    /\ typenode = None
    /\ typedefs = EmptyDict
    /\ enumerations = EmptyDict
    /\ interfaces = EmptyDict
    /\ node = EmptyDict
    /\ ncalls = 0

\* a statement of read_idl_file ran: its frame and where it goes on
ReaderStep(st, to) ==
    /\ frame' = st
    /\ pc' = to
    /\ UNCHANGED <<root, call, definitions, typenode, typedefs, enumerations,
                   interfaces, node, ncalls>>

\* if not ast: raise Exception('Failed to parse ...')
ReadParse ==
    /\ pc = "parse"
    /\ ReaderStep(frame, IF root = None THEN "raised" ELSE "build")

\* definitions = IdlDefinitions(ast)
ReadBuild ==
    /\ pc = "build"
    /\ \E r \in {IdlDefinitions(root)} :
          ReaderStep(r, IF r.raised THEN "raised" ELSE "validate")

\* validate_blink_idl_definitions(idl_filename, idl_file_basename, definitions)
ReadValidate ==
    /\ pc = "validate"
    /\ \E raises \in {validate_blink_idl_definitions(call.idl_file_basename, frame.self)} :
          ReaderStep([frame EXCEPT !.raised = raises],
                     IF raises THEN "invalid" ELSE "attributes")

\* validate_extended_attributes(definitions), of a validator that is not
\* part of these sources: it raises or it does not; then return definitions
ReadReturn ==
    /\ pc = "attributes"
    /\ \E raises \in BOOLEAN :
          /\ frame' = [frame EXCEPT !.raised = raises]
          /\ pc' = IF raises THEN "raised" ELSE "ok"
          /\ definitions' = IF raises THEN None ELSE frame.self
    /\ UNCHANGED <<root, call, typenode, typedefs, enumerations, interfaces, node,
                   ncalls>>

NextReader ==
    \/ ReadParse
    \/ ReadBuild
    \/ ReadValidate
    \/ ReadReturn

SpecReader == InitReader /\ [][NextReader]_vars

(***************************************************************************)
(* Literals.  A text is the sequence of its characters; an integer is an   *)
(* Int; a float is [neg, m, e], the number (-1)^neg * m * 10^e with m not  *)
(* a multiple of 10 unless it is 0.                                        *)
(***************************************************************************)
\* characters a default-value string is made of
MaxLiteralLen == 3

DecimalDigits == <<"0", "1", "2", "3", "4", "5", "6", "7", "8", "9">>

HexDigits == DecimalDigits \o <<"a", "b", "c", "d", "e", "f">>

\* the value of a digit in a base, -1 when it is none
DigitValue(c, base) ==
    LET lower == CASE c = "A" -> "a" [] c = "B" -> "b" [] c = "C" -> "c"
                   [] c = "D" -> "d" [] c = "E" -> "e" [] c = "F" -> "f"
                   [] OTHER -> c
    IN  IF \E i \in 1..base : HexDigits[i] = lower
        THEN (CHOOSE i \in 1..base : HexDigits[i] = lower) - 1
        ELSE -1

RECURSIVE DigitsValue(_, _, _)
\* the number the digits spell in the base, after acc
DigitsValue(digits, base, acc) ==
    IF digits = <<>> THEN acc
    ELSE DigitsValue(Tail(digits), base, acc * base + DigitValue(Head(digits), base))

AllDigits(digits, base) ==
    digits # <<>> /\ \A k \in DOMAIN digits : DigitValue(digits[k], base) >= 0

\* int(value, base=0) of an integer token: [raised, v].  A token with a
\* leading zero that is neither zero nor prefixed is no literal of base 0.
ParseInt(value) ==
    LET neg == value # <<>> /\ value[1] = "-"
        body == IF neg THEN Tail(value) ELSE value
        hex == Len(body) >= 2 /\ body[1] = "0" /\ body[2] \in {"x", "X"}
        digits == IF hex THEN SubSeq(body, 3, Len(body)) ELSE body
        base == IF hex THEN 16 ELSE 10
        sign == IF neg THEN -1 ELSE 1
    IN  IF ~AllDigits(digits, base) THEN [raised |-> TRUE, v |-> 0]
        ELSE IF ~hex /\ digits[1] = "0" /\ \E k \in DOMAIN digits : digits[k] # "0"
        THEN [raised |-> TRUE, v |-> 0]
        ELSE [raised |-> FALSE, v |-> sign * DigitsValue(digits, base, 0)]

RECURSIVE NatText(_)
\* the decimal digits of a natural number
NatText(n) ==
    IF n < 10 THEN <<DecimalDigits[n + 1]>>
    ELSE NatText(n \div 10) \o <<DecimalDigits[(n % 10) + 1]>>

\* '%d' % value
IntText(v) == IF v < 0 THEN <<"-">> \o NatText(-v) ELSE NatText(v)

RECURSIVE Normal(_, _)
\* m * 10^e with the trailing zeros of m moved into e
Normal(m, e) ==
    IF m = 0 THEN [m |-> 0, e |-> 0]
    ELSE IF m % 10 = 0 THEN Normal(m \div 10, e + 1)
    ELSE [m |-> m, e |-> e]

Position(s, chars) ==
    IF \E k \in DOMAIN s : s[k] \in chars
    THEN CHOOSE k \in DOMAIN s : s[k] \in chars /\ \A j \in 1..(k - 1) : s[j] \notin chars
    ELSE 0

\* float(value) of a float token digits[.digits][e[-]digits] with at most
\* six significant digits: [raised, v]
ParseFloat(value) ==
    LET neg == value # <<>> /\ value[1] = "-"
        body == IF neg THEN Tail(value) ELSE value
        ePos == Position(body, {"e", "E"})
        mantissa == IF ePos = 0 THEN body ELSE SubSeq(body, 1, ePos - 1)
        exponent == IF ePos = 0 THEN <<"0">> ELSE SubSeq(body, ePos + 1, Len(body))
        dot == Position(mantissa, {"."})
        whole == IF dot = 0 THEN mantissa ELSE SubSeq(mantissa, 1, dot - 1)
        fraction == IF dot = 0 THEN <<>> ELSE SubSeq(mantissa, dot + 1, Len(mantissa))
        digits == whole \o fraction
        \* int() refuses a leading zero; the exponent of a float may have one
        expDigits == IF exponent # <<>> /\ exponent[1] \in {"+", "-"}
                     THEN Tail(exponent) ELSE exponent
        expValue == IF exponent # <<>> /\ exponent[1] = "-"
                    THEN -DigitsValue(expDigits, 10, 0)
                    ELSE DigitsValue(expDigits, 10, 0)
    IN  IF ~AllDigits(digits, 10) \/ ~AllDigits(expDigits, 10)
        THEN [raised |-> TRUE, v |-> None]
        ELSE LET n == Normal(DigitsValue(digits, 10, 0), expValue - Len(fraction))
             IN  [raised |-> FALSE, v |-> [neg |-> neg, m |-> n.m, e |-> n.e]]

RECURSIVE Zeros(_)
Zeros(n) == IF n <= 0 THEN <<>> ELSE <<"0">> \o Zeros(n - 1)

\* '%g' % value, for a float of at most six significant digits: fixed
\* notation when the decimal exponent is in -4..5, else d[.ddd]e+XX
FloatText(v) ==
    LET digits == NatText(v.m)
        x == Len(digits) - 1 + v.e
        sign == IF v.neg THEN <<"-">> ELSE <<>>
        fixed ==
            IF v.e >= 0 THEN digits \o Zeros(v.e)
            ELSE IF x >= 0
            THEN SubSeq(digits, 1, x + 1) \o <<".">> \o SubSeq(digits, x + 2, Len(digits))
            ELSE <<"0", ".">> \o Zeros(-x - 1) \o digits
        ax == IF x < 0 THEN -x ELSE x
        scientific ==
            <<digits[1]>>
                \o (IF Len(digits) > 1 THEN <<".">> \o Tail(digits) ELSE <<>>)
                \o <<"e", IF x < 0 THEN "-" ELSE "+">>
                \o (IF ax < 10 THEN <<"0">> ELSE <<>>) \o NatText(ax)
    IN  sign \o (IF v.m = 0 THEN <<"0">>
                 ELSE IF x >= -4 /\ x < 6 THEN fixed ELSE scientific)

\* a Default node with its TYPE and VALUE properties
DefaultNode(type, value) == [class |-> "Default", TYPE |-> type, VALUE |-> value]

\* IdlLiteral.__init__
IdlLiteral(idl_type, value) == [idl_type |-> idl_type, value |-> value, is_null |-> FALSE]

\* IdlLiteralNull.__init__
IdlLiteralNull == [idl_type |-> "NULL", value |-> None, is_null |-> TRUE]

\* default_node_to_idl_literal: [raised, v]
default_node_to_idl_literal(n) ==
    LET idl_type == n.TYPE
        value == n.VALUE
        Ok(v) == [raised |-> FALSE, v |-> v]
        Raises == [raised |-> TRUE, v |-> None]
    IN  CASE idl_type = "DOMString" ->
                IF \E k \in DOMAIN value : value[k] \in {"\"", "\\"} THEN Raises
                ELSE Ok(IdlLiteral(idl_type, value))
          [] idl_type = "integer" ->
                LET i == ParseInt(value)
                IN  IF i.raised THEN Raises ELSE Ok(IdlLiteral(idl_type, i.v))
          [] idl_type = "float" ->
                LET f == ParseFloat(value)
                IN  IF f.raised THEN Raises ELSE Ok(IdlLiteral(idl_type, f.v))
          [] idl_type \in {"boolean", "sequence"} -> Ok(IdlLiteral(idl_type, value))
          [] idl_type = "NULL" -> Ok(IdlLiteralNull)
          [] idl_type = "dictionary" -> Ok(IdlLiteral(idl_type, value))
          [] OTHER -> Raises

EmptyStringSentinel == <<"W", "T", "F", ":", ":", "g", "_", "e", "m", "p", "t", "y", "_", "s", "t", "r", "i", "n", "g">>

\* IdlLiteral.__str__ (DOMString): '"%s"' % self.value, or the sentinel
StringText(value) ==
    IF value # <<>> THEN <<"\"">> \o value \o <<"\"">> ELSE EmptyStringSentinel

\* IdlLiteral.__str__ / IdlLiteralNull.__str__: [raised, v]
IdlLiteral_str(self) ==
    LET Ok(v) == [raised |-> FALSE, v |-> v]
    IN  CASE self.is_null -> Ok(<<"n", "u", "l", "l", "p", "t", "r">>)
          [] self.idl_type = "DOMString" -> Ok(StringText(self.value))
          [] self.idl_type = "integer" -> Ok(IntText(self.value))
          [] self.idl_type = "float" -> Ok(FloatText(self.value))
          [] self.idl_type = "boolean" ->
                Ok(IF self.value THEN <<"t", "r", "u", "e">> ELSE <<"f", "a", "l", "s", "e">>)
          [] self.idl_type = "dictionary" -> Ok(self.value)
          [] OTHER -> [raised |-> TRUE, v |-> <<>>]

(***************************************************************************)
(* SpecLiterals: a Default node is turned into a literal, and the literal  *)
(* into text.  node is the Default node, frame the literal and then its    *)
(* text.                                                                   *)
(***************************************************************************)
\* the strings of at most n of these characters
Strings(chars, n) == UNION { [1..k -> chars] : k \in 0..n }

\* the tokens an integer default is written with
IntegerTokens == { <<"0">>,
      <<"7">>,
      <<"1", "0">>,
      <<"-", "5">>,
      <<"0", "x", "1", "F">>,
      <<"0", "1", "7">>,
      <<"1", "x">> }

\* the tokens a float default is written with
FloatTokens == { <<"1", ".", "5">>,
      <<"2", ".", "0">>,
      <<"1", "e", "3">>,
      <<"0", ".", "0", "0", "0", "1">>,
      <<"-", "0", ".", "5">>,
      <<"1", "e", "1", "0">>,
      <<"0", ".", "0", "0", "0", "0", "1">>,
      <<"1", "2", "3", "4", "5", "6">>,
      <<"1", ".", "2", "5", "e", "-", "7">> }

\* Default nodes whose VALUE is text: strings, integers, floats, [], null,
\* {} and a type the builder does not know
TextDefaultNodes ==
    { DefaultNode("DOMString", v) : v \in Strings({"a", "b", "\"", "\\"}, MaxLiteralLen) }
        \cup { DefaultNode("integer", v) : v \in IntegerTokens }
        \cup { DefaultNode("float", v) : v \in FloatTokens }
        \cup { DefaultNode("sequence", <<"[", "]">>),
               DefaultNode("NULL", <<"n", "u", "l", "l">>),
               DefaultNode("dictionary", <<"{", "}">>),
               DefaultNode("other", <<>>) }

\* Default nodes of the boolean literals: VALUE is the boolean
BooleanDefaultNodes == { DefaultNode("boolean", v) : v \in BOOLEAN }

InitLiterals ==
    /\ \/ node \in TextDefaultNodes
       \/ node \in BooleanDefaultNodes
    /\ frame = None
    /\ pc = "default"
    /\ typenode = None
    /\ typedefs = EmptyDict
    /\ enumerations = EmptyDict
    /\ root = None
    /\ definitions = None
    /\ interfaces = EmptyDict
    /\ call = [op |-> "none"]
    /\ ncalls = 0

\* literal = default_node_to_idl_literal(node)
BuildLiteral ==
    /\ pc = "default"
    /\ \E r \in {default_node_to_idl_literal(node)} :
          /\ frame' = r
          /\ pc' = IF r.raised THEN "raised" ELSE "literal"
    /\ UNCHANGED <<node, interfaces, call, ncalls, entityVars>>

\* str(literal)
RenderLiteral ==
    /\ pc = "literal"
    /\ \E r \in {IdlLiteral_str(frame.v)} :
          /\ frame' = [literal |-> frame.v, raised |-> r.raised, text |-> r.v]
          /\ pc' = IF r.raised THEN "raised" ELSE "text"
    /\ UNCHANGED <<node, interfaces, call, ncalls, entityVars>>

NextLiterals ==
    \/ BuildLiteral
    \/ RenderLiteral

SpecLiterals == InitLiterals /\ [][NextLiterals]_vars

(***************************************************************************)
(* SpecChain: is_subclass_of on interfaces whose parent links are resolved *)
(* to interface objects, one pass of its loop per step.  interfaces maps   *)
(* each object to its name and parent, call holds the receiver and the     *)
(* argument, frame the local i and the value returned (read once pc is     *)
(* returned).                                                              *)
(***************************************************************************)
\* interface objects on the heap
MaxChain == 3

ChainNames == <<"A", "B", "C", "D", "E">>

\* a reference to the interface object k
Ref(k) == [t |-> "IdlInterface", id |-> k]

RECURSIVE Ancestors(_, _, _)
\* the objects reached from k by at most n parent links, k not among them
\* unless the links lead back to it
Ancestors(parent, k, n) ==
    IF n = 0 \/ parent[k] = 0 THEN {}
    ELSE {parent[k]} \cup Ancestors(parent, parent[k], n - 1)

\* no object is its own ancestor
Acyclic(parent) == \A k \in DOMAIN parent : k \notin Ancestors(parent, k, MaxChain)

\* maybe_parent == parent_info: a name against i.name, an interface against
\* i itself (IdlInterface defines no __eq__, so objects compare by identity)
IsParentInfo(maybe_parent, i) ==
    IF maybe_parent.t = "str"
    THEN maybe_parent.v = interfaces[i.id].name
    ELSE maybe_parent.id = i.id

\* a loop that starts at the interface itself
FirstCandidateSelf(self) == Ref(self)

\* i = self.parent
FirstCandidate(self) == interfaces[self].parent

InitChain ==
    /\ \E parent \in [1..MaxChain -> 0..MaxChain] :
          /\ Acyclic(parent)
          /\ interfaces = [k \in 1..MaxChain |->
                              [name |-> ChainNames[k],
                               parent |-> IF parent[k] = 0 THEN None ELSE Ref(parent[k])]]
    /\ \E self \in 1..MaxChain :
          \/ \E k \in 1..MaxChain :
                call = [op |-> "is_subclass_of", self |-> self, maybe_parent |-> Ref(k)]
          \/ \E k \in 1..(MaxChain + 1) :
                call = [op |-> "is_subclass_of", self |-> self,
                        maybe_parent |-> PyStr(ChainNames[k])]
    /\ frame = None
    /\ pc = "call"
    /\ node = EmptyDict
    /\ ncalls = 0
    /\ NoEntities

\* i = self.parent
ChainCall ==
    /\ pc = "call"
    /\ frame' = [i |-> FirstCandidate(call.self), returned |-> FALSE]
    /\ pc' = "loop"
    /\ UNCHANGED <<interfaces, node, call, ncalls, entityVars>>

\* one pass of the loop: return True on a match, else i = i.parent
ChainTest ==
    /\ pc = "loop"
    /\ frame.i # None
    /\ IF IsParentInfo(call.maybe_parent, frame.i)
       THEN /\ frame' = [frame EXCEPT !.returned = TRUE]
            /\ pc' = "returned"
       ELSE /\ frame' = [frame EXCEPT !.i = interfaces[frame.i.id].parent]
            /\ pc' = "loop"
    /\ UNCHANGED <<interfaces, node, call, ncalls, entityVars>>

\* the loop ends: return False
ChainReturn ==
    /\ pc = "loop"
    /\ frame.i = None
    /\ frame' = [frame EXCEPT !.returned = FALSE]
    /\ pc' = "returned"
    /\ UNCHANGED <<interfaces, node, call, ncalls, entityVars>>

NextChain ==
    \/ ChainCall
    \/ ChainTest
    \/ ChainReturn

\* the call runs to its end once started: nothing suspends it
SpecChain == InitChain /\ [][NextChain]_vars /\ WF_vars(NextChain)

(***************************************************************************)
(* SpecHeap: merge and inherite as writes to objects.  interfaces is the   *)
(* heap: it maps the identity of every interface object and of every list  *)
(* and dict they reach to its content.  An interface object holds the      *)
(* identities of its containers; a member (attribute, operation, constant, *)
(* exposure) is an immutable value carrying its owner.  call records the   *)
(* last call and the heap before it.                                       *)
(***************************************************************************)
\* the identity of an object: the interface that created it, the field it
\* was created for, the key under it, and the call that created it (0: the
\* constructor)
ObjId(owner, field, sub, n) == [owner |-> owner, field |-> field, sub |-> sub, n |-> n]

\* a reference to a list object, as a value of a dict
ListRef(id) == [t |-> "ref", id |-> id]

\* the interface object i
Self(h, i) == h[ObjId(i, "self", "", 0)]

ListFields == {"attributes", "constants", "operations", "constructors", "eventhandlers"}

DictFields == {"attributes_dict", "attributes_type_dict", "extended_attributes"}

\* bool(value) of a value of extended_attributes
TruthyIn(h, val) == IF val.t = "ref" THEN h[val.id] # <<>> ELSE Truthy(val)

HeapAttribute(i, name, idl_type, is_eventhandler) ==
    [kind |-> "attribute", name |-> name, idl_type |-> idl_type,
     is_eventhandler |-> is_eventhandler, owner |-> i]

HeapMember(i, kind, name) == [kind |-> kind, name |-> name, owner |-> i]

\* the members an interface declares: its attributes, operations, constants
HeapMembers(i) ==
    { [attributes |-> <<>>, operations |-> <<>>, constants |-> <<>>],
      [attributes |-> <<HeapAttribute(i, "onload", "EventHandler", TRUE)>>,
       operations |-> <<>>, constants |-> <<>>],
      [attributes |-> <<HeapAttribute(i, "x", "long", FALSE)>>,
       operations |-> <<HeapMember(i, "operation", "foo")>>,
       constants |-> <<HeapMember(i, "constant", "C")>>] }

\* the Exposure objects of the Exposed list an interface declares: A is
\* exposed to Window, B to Window and Worker
HeapExposures(i) ==
    IF i = "A" THEN <<HeapMember(i, "exposure", "Window")>>
    ELSE <<HeapMember(i, "exposure", "Window"), HeapMember(i, "exposure", "Worker")>>

\* the extended attributes an interface declares: none, [Exposed=...],
\* [SecureContext, Exposed=...]
HeapExtendedAttributes == { {}, {"Exposed"}, {"SecureContext", "Exposed"} }

\* the objects IdlInterface.__init__ creates for interface i
NewObjects(i, m, ext, stringifier) ==
    LET types == {m.attributes[k].idl_type : k \in DOMAIN m.attributes}
        Own(f) == ObjId(i, f, "", 0)
        self ==
            [f \in ListFields \cup DictFields |-> Own(f)]
                @@ [name |-> i,
                    stringifier |-> IF stringifier
                                    THEN [t |-> "IdlStringifier", owner |-> i]
                                    ELSE None]
    IN  (ObjId(i, "self", "", 0) :> self)
            @@ (Own("attributes") :> m.attributes)
            @@ (Own("constants") :> m.constants)
            @@ (Own("operations") :> m.operations)
            @@ (Own("constructors") :> <<>>)
            @@ (Own("eventhandlers") :>
                    SelectSeq(m.attributes, LAMBDA a : a.is_eventhandler))
            @@ (Own("attributes_dict") :>
                    [n \in {m.attributes[k].name : k \in DOMAIN m.attributes} |->
                        m.attributes[CHOOSE k \in DOMAIN m.attributes :
                                         m.attributes[k].name = n]])
            @@ (Own("attributes_type_dict") :>
                    [t \in types |-> ListRef(ObjId(i, "type", t, 0))])
            @@ [id \in {ObjId(i, "type", t, 0) : t \in types} |->
                    SelectSeq(m.attributes, LAMBDA a : a.idl_type = id.sub)]
            @@ (Own("extended_attributes") :>
                    [k \in ext |-> IF k = "Exposed"
                                   THEN ListRef(ObjId(i, "ext", "Exposed", 0))
                                   ELSE None])
            @@ [id \in {ObjId(i, "ext", k, 0) : k \in ext \cap {"Exposed"}} |->
                    HeapExposures(i)]

\* self.<field>.append(x) / .extend(xs)
ListExtend(h, id, xs) == [h EXCEPT ![id] = @ \o xs]

\* update_attribute, as writes; n is the number of the running call
HeapUpdateAttribute(h, a, attr, n) ==
    LET self == Self(h, a)
        h1 == ListExtend(h, self.attributes, <<attr>>)
        h2 == [h1 EXCEPT ![self.attributes_dict] = DictSet(@, attr.name, attr)]
        types == h2[self.attributes_type_dict]
        missing == \/ attr.idl_type \notin DOMAIN types
                   \/ h2[types[attr.idl_type].id] = <<>>
        fresh == ObjId(a, "type", attr.idl_type, n)
        h3 == IF missing
              THEN (fresh :> <<>>)
                       @@ [h2 EXCEPT ![self.attributes_type_dict] =
                                         DictSet(@, attr.idl_type, ListRef(fresh))]
              ELSE h2
    IN  ListExtend(h3, h3[self.attributes_type_dict][attr.idl_type].id, <<attr>>)

RECURSIVE HeapMergeAttributes(_, _, _, _, _)
\* for attr in other.attributes: self.update_attribute(attr), from the k-th
HeapMergeAttributes(h, a, attrs, k, n) ==
    IF k > Len(attrs) THEN h
    ELSE HeapMergeAttributes(HeapUpdateAttribute(h, a, attrs[k], n), a, attrs, k + 1, n)

RECURSIVE HeapInheritAttributes(_, _, _, _, _)
\* the loop of inherite over parent.attributes, from the k-th
HeapInheritAttributes(h, a, attrs, k, n) ==
    IF k > Len(attrs) THEN h
    ELSE HeapInheritAttributes(
             IF attrs[k].name \in DOMAIN h[Self(h, a).attributes_dict] THEN h
             ELSE HeapUpdateAttribute(h, a, attrs[k], n),
             a, attrs, k + 1, n)

RECURSIVE HeapInheritOperations(_, _, _, _)
\* the loop of inherite over parent.operations, from the k-th
HeapInheritOperations(h, a, ops, k) ==
    IF k > Len(ops) THEN h
    ELSE LET mine == h[Self(h, a).operations]
             overwrite == \E j \in DOMAIN mine : mine[j].name = ops[k].name
         IN  HeapInheritOperations(
                 IF overwrite THEN h ELSE ListExtend(h, Self(h, a).operations, <<ops[k]>>),
                 a, ops, k + 1)

\* a union that extends the receiver's list where it is
UnionInPlace(h, a, k, listed, n) ==
    [h EXCEPT ![h[Self(h, a).extended_attributes][k].id] = listed]

\* self.extended_attributes[k] = list(set(...)): a new list object holding
\* the union in the order listed
UnionAsNewList(h, a, k, listed, n) ==
    LET fresh == ObjId(a, "ext", k, n)
    IN  (fresh :> listed)
            @@ [h EXCEPT ![Self(h, a).extended_attributes] = DictSet(@, k, ListRef(fresh))]

\* the lists list(set(mine + theirs)) can be
Unions(h, a, b, k) ==
    LET mine == h[Self(h, a).extended_attributes]
        theirs == h[Self(h, b).extended_attributes]
    IN  IF /\ k \in DOMAIN mine /\ k \in DOMAIN theirs
           /\ TruthyIn(h, mine[k]) /\ k = "Exposed"
        THEN SeqsOf(Range(h[mine[k].id] \o h[theirs[k].id]))
        ELSE {<<>>}

\* one pass of the loop over other.extended_attributes.items()
HeapMergeExtendedAttribute(h, a, b, k, listed, n) ==
    LET mine == h[Self(h, a).extended_attributes]
        v == h[Self(h, b).extended_attributes][k]
    IN  IF k \notin DOMAIN mine \/ ~TruthyIn(h, mine[k])
        THEN [h EXCEPT ![Self(h, a).extended_attributes] = DictSet(@, k, v)]
        ELSE IF k = "Exposed" THEN UnionAsNewList(h, a, k, listed, n)
        ELSE h

\* the loop over other.extended_attributes.items(); listed is the order in
\* which the Exposed branch lists its set
HeapMergeExtendedAttributes(h, a, b, listed, n) ==
    LET keys == DOMAIN h[Self(h, b).extended_attributes]
        h1 == IF "SecureContext" \in keys
              THEN HeapMergeExtendedAttribute(h, a, b, "SecureContext", listed, n)
              ELSE h
    IN  IF "Exposed" \in keys
        THEN HeapMergeExtendedAttribute(h1, a, b, "Exposed", listed, n)
        ELSE h1

\* if self.stringifier is None: self.stringifier = other.stringifier
HeapAdoptStringifier(h, a, b) ==
    IF Self(h, a).stringifier = None
    THEN [h EXCEPT ![ObjId(a, "self", "", 0)].stringifier = Self(h, b).stringifier]
    ELSE h

\* IdlInterface.merge, as writes
HeapMerge(h, a, b, listed, n) ==
    LET other == Self(h, b)
        h1 == HeapMergeAttributes(h, a, h[other.attributes], 1, n)
        h2 == ListExtend(h1, Self(h1, a).constants, h1[other.constants])
        h3 == ListExtend(h2, Self(h2, a).operations, h2[other.operations])
        h4 == ListExtend(h3, Self(h3, a).constructors, h3[other.constructors])
        h5 == ListExtend(h4, Self(h4, a).eventhandlers, h4[other.eventhandlers])
    IN  HeapAdoptStringifier(HeapMergeExtendedAttributes(h5, a, b, listed, n), a, b)

\* IdlInterface.inherite, as writes
HeapInherite(h, a, b, listed, n) ==
    LET parent == Self(h, b)
        h1 == ListExtend(h, Self(h, a).eventhandlers, h[parent.eventhandlers])
        h2 == HeapInheritAttributes(h1, a, h1[parent.attributes], 1, n)
        h3 == HeapInheritOperations(h2, a, h2[parent.operations], 1)
        h4 == ListExtend(h3, Self(h3, a).constants, h3[parent.constants])
    IN  HeapAdoptStringifier(HeapMergeExtendedAttributes(h4, a, b, listed, n), a, b)

InitHeap ==
    /\ \E m \in [Ifaces -> UNION {HeapMembers(i) : i \in Ifaces}] :
          \E ext \in [Ifaces -> HeapExtendedAttributes] :
              \E stringifier \in [Ifaces -> BOOLEAN] :
                  /\ \A i \in Ifaces : m[i] \in HeapMembers(i)
                  /\ interfaces =
                        NewObjects("A", m["A"], ext["A"], stringifier["A"])
                            @@ NewObjects("B", m["B"], ext["B"], stringifier["B"])
    /\ node = EmptyDict
    /\ frame = None
    /\ pc = "heap"
    /\ call = [op |-> "none"]
    /\ ncalls = 0
    /\ NoEntities

\* a.merge(b)
HeapMergeCall(a, b) ==
    /\ pc = "heap"
    /\ ncalls < MaxCalls
    /\ \E listed \in Unions(interfaces, a, b, "Exposed") :
          interfaces' = HeapMerge(interfaces, a, b, listed, ncalls + 1)
    /\ call' = [op |-> "merge", self |-> a, other |-> b, pre |-> interfaces]
    /\ ncalls' = ncalls + 1
    /\ UNCHANGED <<node, frame, pc, entityVars>>

\* a.inherite(b)
HeapInheriteCall(a, b) ==
    /\ pc = "heap"
    /\ ncalls < MaxCalls
    /\ \E listed \in Unions(interfaces, a, b, "Exposed") :
          interfaces' = HeapInherite(interfaces, a, b, listed, ncalls + 1)
    /\ call' = [op |-> "inherite", self |-> a, other |-> b, pre |-> interfaces]
    /\ ncalls' = ncalls + 1
    /\ UNCHANGED <<node, frame, pc, entityVars>>

NextHeap ==
    \/ \E a \in Ifaces : \E b \in Ifaces \ {a} : HeapMergeCall(a, b)
    \/ \E a \in Ifaces : \E b \in Ifaces \ {a} : HeapInheriteCall(a, b)

SpecHeap == InitHeap /\ [][NextHeap]_vars

(***************************************************************************)
(* SpecLineage: three interfaces G, P and C as IdlInterface.__init__       *)
(* returns them, then P.inherite(G) and C.inherite(P).  frame keeps the    *)
(* three interfaces as constructed.                                        *)
(***************************************************************************)
Lineage == <<"G", "P", "C">>

InitLineage ==
    /\ \E n \in 0..MaxNodes : \E s \in [1..n -> MergeChildren] :
          \E j \in 0..n : \E k \in j..n :
              node = ("G" :> SubSeq(s, 1, j)) @@ ("P" :> SubSeq(s, j + 1, k))
                         @@ ("C" :> SubSeq(s, k + 1, n))
    /\ \A i \in Range(Lineage) : WellFormed(node[i]) /\ ~IdlInterface(i, node[i]).raised
    /\ interfaces = [i \in Range(Lineage) |-> IdlInterface(i, node[i]).self]
    /\ frame = interfaces
    /\ pc = "P"
    /\ call = [op |-> "none"]
    /\ ncalls = 0
    /\ NoEntities

\* interfaces[a].inherite(interfaces[b]), the step at position at
InheritStep(at, a, b, to) ==
    /\ pc = at
    /\ \E exposed \in ExposedLists(interfaces[a].extended_attributes,
                                   interfaces[b].extended_attributes) :
          interfaces' = [interfaces EXCEPT
                           ![a] = inherite(interfaces[a], interfaces[b], exposed)]
    /\ call' = [op |-> "inherite", self |-> a, other |-> b, pre |-> interfaces]
    /\ ncalls' = ncalls + 1
    /\ pc' = to
    /\ UNCHANGED <<node, frame, entityVars>>

\* P.inherite(G)
InheritParent == InheritStep("P", "P", "G", "C")

\* C.inherite(P)
InheritChild == InheritStep("C", "C", "P", "done")

NextLineage == InheritParent \/ InheritChild

SpecLineage == InitLineage /\ [][NextLineage]_vars

(***************************************************************************)
(* The claims.  In Spec, Pre(i) is interface i before the last call and    *)
(* Post(i) is interface i after it.                                        *)
(***************************************************************************)
Called(op) == call.op = op

Pre(i) == call.pre[i]

Post(i) == interfaces[i]

\* [x for x in s if x.name == n], as the list of the members named n
Named(s, n) == SelectSeq(s, LAMBDA x : x.name = n)

\* C1: inherite(child, parent) copies every parent operation whose name is
\* not the name of any operation the child had before the call, every
\* overload included: each such operation is in the child's operation list
\* after the call.
C1_UnshadowedOperationsCopied ==
    Called("inherite") =>
        \A k \in DOMAIN Pre(call.other).operations :
            LET op == Pre(call.other).operations[k]
            IN  op.name \notin Names(Pre(call.self).operations)
                    => op \in Range(Post(call.self).operations)

\* C2: if the child declares exactly one operation named n and the parent
\* declares one or more operations named n (with any argument signatures),
\* then after inherite(child, parent) the child's operation list holds
\* exactly one operation named n, the one the child had.
C2_ChildOperationShadows ==
    Called("inherite") =>
        \A n \in Names(Pre(call.other).operations) :
            Len(Named(Pre(call.self).operations, n)) = 1
                => Named(Post(call.self).operations, n)
                       = Named(Pre(call.self).operations, n)

\* inherite ran on a child with one operation n whose parent holds an
\* operation n of another signature
C2_Witness ==
    /\ Called("inherite")
    /\ \E n \in Names(Pre(call.other).operations) :
          /\ Len(Named(Pre(call.self).operations, n)) = 1
          /\ \E k \in DOMAIN Pre(call.other).operations :
                LET op == Pre(call.other).operations[k]
                IN  /\ op.name = n
                    /\ op.arguments # Named(Pre(call.self).operations, n)[1].arguments

\* C3: inherite(child, parent) copies exactly the parent attributes whose
\* name is not the name of an attribute in the child's ordered attribute
\* list: none that shares a name is added, every other one is added, in the
\* parent's order.
C3_UnshadowedAttributesCopied ==
    Called("inherite") =>
        Post(call.self).attributes
            = Pre(call.self).attributes
                \o SelectSeq(Pre(call.other).attributes,
                             LAMBDA a : a.name \notin Names(Pre(call.self).attributes))

\* C4: merge(base, partial) appends all of the partial's attributes: the
\* base's attribute list after the call is its list before the call followed
\* by the partial's attributes in the partial's order, same-named ones
\* included.
C4_MergeAppendsAttributes ==
    Called("merge") =>
        Post(call.self).attributes
            = Pre(call.self).attributes \o Pre(call.other).attributes

\* merge ran with a partial that has an attribute named like one of the base
C4_Witness ==
    /\ Called("merge")
    /\ Names(Pre(call.self).attributes) \cap Names(Pre(call.other).attributes) # {}

\* C5: in merge and in inherite, for every extended-attribute key other than
\* Exposed: a key present in both mappings with differing values keeps the
\* receiver's value, whatever that value is; a key absent from the receiver
\* is added with the incoming value.
C5_ExistingExtendedAttributeKept ==
    (Called("merge") \/ Called("inherite")) =>
        LET d == Pre(call.self).extended_attributes
            e == Pre(call.other).extended_attributes
            r == Post(call.self).extended_attributes
        IN  \A k \in (DOMAIN e) \ {"Exposed"} :
                /\ k \in DOMAIN r
                /\ (k \in DOMAIN d /\ d[k] # e[k]) => r[k] = d[k]
                /\ k \notin DOMAIN d => r[k] = e[k]

\* the pair (context name, runtime-enable flag) of an exposure
ExposureKey(x) == <<x.exposed, x.runtime_enabled>>

\* C6: when both interfaces carry Exposed, merge(base, partial) unions the
\* exposures as a set: the base's Exposed list after the call holds every
\* exposure (context name, runtime-enable flag) of either input, and each
\* only once.
C6_ExposedUnionIsSet ==
    ( /\ Called("merge")
      /\ "Exposed" \in DOMAIN Pre(call.self).extended_attributes
      /\ "Exposed" \in DOMAIN Pre(call.other).extended_attributes ) =>
        LET old == Pre(call.self).extended_attributes["Exposed"].v
                       \o Pre(call.other).extended_attributes["Exposed"].v
            new == Post(call.self).extended_attributes["Exposed"].v
        IN  /\ {ExposureKey(new[k]) : k \in DOMAIN new}
                   = {ExposureKey(old[k]) : k \in DOMAIN old}
            /\ \A j, k \in DOMAIN new :
                   j # k => ExposureKey(new[j]) # ExposureKey(new[k])

\* C7: in merge and in inherite the receiver keeps its own stringifier when
\* it has one and adopts the other interface's only when it has none; no
\* call replaces a stringifier that an interface already has.
C7_StringifierKept ==
    (Called("merge") \/ Called("inherite")) =>
        /\ Post(call.self).stringifier
               = IF Pre(call.self).stringifier # None
                 THEN Pre(call.self).stringifier
                 ELSE Pre(call.other).stringifier
        /\ \A i \in Ifaces :
               Pre(i).stringifier # None => Post(i).stringifier = Pre(i).stringifier

\* a call was made on a receiver with a stringifier, the other interface
\* having a different one
C7_Witness ==
    /\ Called("merge") \/ Called("inherite")
    /\ Pre(call.self).stringifier # None
    /\ Pre(call.other).stringifier # None
    /\ Pre(call.other).stringifier # Pre(call.self).stringifier

\* a call was made on a receiver without a stringifier, which adopted one
C7_WitnessAdopted ==
    /\ Called("merge") \/ Called("inherite")
    /\ Pre(call.self).stringifier = None
    /\ Post(call.self).stringifier # None

(***************************************************************************)
(* Claims about IdlInterface.__init__, under SpecBuild: Children is the    *)
(* list of children of the syntax node; pc = "ok" when __init__ returned   *)
(* the interface Built, pc = "raised" when it raised.                      *)
(***************************************************************************)
Children == node["A"]

Built == interfaces["A"]

\* the loop over Children ended without raising
LoopPassed == ~InitChildren(NewFrame("A"), Children, 1).raised

\* C8: attribute names are unique per interface, enforced at construction:
\* every interface that __init__ returns has pairwise-distinct attribute
\* names in its ordered attribute list.
C8_AttributeNamesUnique ==
    pc = "ok" =>
        \A j, k \in DOMAIN Built.attributes :
            j # k => Built.attributes[j].name # Built.attributes[k].name

\* the node carries a legacy constructor extended attribute
HasLegacyConstructor(children) ==
    \E k \in DOMAIN children :
        /\ children[k].class = "ExtAttributes"
        /\ \E j \in DOMAIN children[k].children :
              children[k].children[j].name
                  \in {"NamedConstructor", "Constructor", "CustomConstructor"}

\* the node declares a constructor operation, custom or not
HasConstructorOperation(children) ==
    \E k \in DOMAIN children : children[k].class = "Constructor"

\* C9: constructing an interface that carries both a legacy constructor
\* extended attribute and at least one constructor operation (custom or not)
\* fails, in whatever order the children appear; the constructor lists of a
\* constructed interface come from exactly one of the two mechanisms.
C9_OneConstructorMechanism ==
    pc = "ok" =>
        /\ ~(HasLegacyConstructor(Children) /\ HasConstructorOperation(Children))
        /\ LET c == Built.constructors \o Built.custom_constructors
           IN  \/ \A k \in DOMAIN c : c[k].name = "NamedConstructor"
               \/ \A k \in DOMAIN c : c[k].name \in {"Constructor", "CustomConstructor"}
        /\ HasLegacyConstructor(Children) =>
               Names(Built.constructors) = {"NamedConstructor"}
        /\ HasConstructorOperation(Children) =>
               Len(Built.constructors) + Len(Built.custom_constructors)
                   = Cardinality({k \in DOMAIN Children :
                                     Children[k].class = "Constructor"})

\* __init__ raised after its loop on a node whose constructor operation
\* comes before its [NamedConstructor]
C9_Witness ==
    /\ pc = "raised"
    /\ LoopPassed
    /\ Len(Children) = 2
    /\ Children[1].class = "Constructor"
    /\ HasLegacyConstructor(Children)

\* what a Constructor child says about an extended attribute: whether it
\* carries it and with which value
ConstructorAttribute(n, a) ==
    IF \E j \in DOMAIN n.ext : n.ext[j].name = a
    THEN [carried |-> TRUE,
          value |-> n.ext[CHOOSE j \in DOMAIN n.ext : n.ext[j].name = a].VALUE]
    ELSE [carried |-> FALSE, value |-> None]

\* a Constructor child without [Custom]
NonCustomConstructor(n) ==
    n.class = "Constructor" /\ ConstructorAttribute(n, "Custom").carried = FALSE

\* C10: when an interface declares two or more non-custom constructor
\* operations, construction fails unless all agree on CallWith and on
\* RaisesException; one that carries the attribute and one that does not
\* disagree.
C10_ConstructorsAgree ==
    pc = "ok" =>
        \A j, k \in DOMAIN Children :
            (NonCustomConstructor(Children[j]) /\ NonCustomConstructor(Children[k])) =>
                \A a \in {"CallWith", "RaisesException"} :
                    ConstructorAttribute(Children[j], a)
                        = ConstructorAttribute(Children[k], a)

\* the list of extended attributes eas names this one
Carries(eas, name) == \E j \in DOMAIN eas : eas[j].name = name

\* the positions of the children of this class that satisfy P
ChildrenWhere(class, P(_)) ==
    {k \in DOMAIN Children : Children[k].class = class /\ P(Children[k])}

\* the node's own extended attributes carry this one
InterfaceCarries(name) ==
    ChildrenWhere("ExtAttributes", LAMBDA n : Carries(n.children, name)) # {}

\* C11: constructing an interface whose syntax node contains two operations
\* named handleEvent fails; every constructed interface has at most one
\* operation named handleEvent, and its event_handler field is that operation
\* when there is one.
C11_OneHandleEvent ==
    pc = "ok" =>
        LET h == {k \in DOMAIN Built.operations :
                     Built.operations[k].name = "handleEvent"}
        IN  /\ Cardinality(ChildrenWhere("Operation",
                                LAMBDA n : n.name = "handleEvent")) <= 1
            /\ Cardinality(h) <= 1
            /\ \A k \in h : Built.event_handler = Built.operations[k]

\* the kinds among iterable, maplike and setlike that the node declares
DeclaredKinds ==
    {c \in {"Iterable", "Maplike", "Setlike"} : ChildrenWhere(c, LAMBDA n : TRUE) # {}}

\* C12: every constructed interface has at most one of iterable, maplike and
\* setlike set, and no node that declares two or more of these kinds is
\* constructed.
C12_OneIterableKind ==
    pc = "ok" =>
        /\ Cardinality({f \in {"iterable", "maplike", "setlike"} : Built[f] # None}) <= 1
        /\ Cardinality(DeclaredKinds) <= 1

\* __init__ raised after its loop on iterable<K, V> followed by setlike<V>
C12_Witness ==
    /\ pc = "raised"
    /\ LoopPassed
    /\ Len(Children) = 2
    /\ Children[1].class = "Iterable"
    /\ Children[2].class = "Setlike"

\* the node declares an integer-typed attribute named length
DeclaresIntegerLength ==
    ChildrenWhere("Attribute",
                  LAMBDA n : n.name = "length" /\ is_integer_type(n.type)) # {}

\* the node declares a getter whose first argument is an unsigned long
DeclaresIndexedGetter ==
    ChildrenWhere("Operation",
                  LAMBDA n : /\ "getter" \in n.specials
                             /\ n.arguments # <<>>
                             /\ n.arguments[1].type = "unsigned long") # {}

\* C13: an interface with a value-only iterable (no key type) is constructed
\* only when it declares an integer-typed attribute named length and a getter
\* with an unsigned long first argument; has_indexed_elements of a
\* constructed interface is true exactly when both are declared.
C13_ValueIterableNeedsIndexedElements ==
    pc = "ok" =>
        /\ (Built.iterable # None /\ Built.iterable.key_type = None) =>
               (DeclaresIntegerLength /\ DeclaresIndexedGetter)
        /\ Built.has_indexed_elements = (DeclaresIntegerLength /\ DeclaresIndexedGetter)

\* an interface with iterable<V>, length and an indexed getter was constructed
C13_Witness ==
    /\ pc = "ok"
    /\ Built.iterable # None
    /\ Built.iterable.key_type = None
    /\ Built.has_indexed_elements

\* an Attribute or Operation child that is static and carries [Unforgeable]
StaticUnforgeable(n) == n.STATIC /\ Carries(n.ext, "Unforgeable")

\* C14: constructing a static attribute or a static operation that carries
\* Unforgeable fails, constructing an interface whose own extended attributes
\* carry Unforgeable fails, and no attribute or operation of a constructed
\* interface, promoted stringifier members included, is both static and
\* Unforgeable.
C14_UnforgeableNotStaticNorInterface ==
    /\ pc # "raised" =>
           /\ ChildrenWhere("Attribute", StaticUnforgeable) = {}
           /\ ChildrenWhere("Operation", StaticUnforgeable) = {}
    /\ pc = "ok" =>
           /\ ~InterfaceCarries("Unforgeable")
           /\ \A l \in {"attributes", "operations"} : \A k \in DOMAIN Built[l] :
                  ~(/\ Built[l][k].is_static
                    /\ "Unforgeable" \in DOMAIN Built[l][k].extended_attributes)

\* __init__ raised on its first child, a static [Unforgeable] attribute
C14_Witness ==
    /\ pc = "raised"
    /\ Len(Children) = 1
    /\ Children[1].class = "Attribute"
    /\ StaticUnforgeable(Children[1])

\* the node declares a getter whose first argument is a DOMString
DeclaresNamedGetter ==
    ChildrenWhere("Operation",
                  LAMBDA n : /\ "getter" \in n.specials
                             /\ n.arguments # <<>>
                             /\ n.arguments[1].type = "DOMString") # {}

\* C15: an interface that carries LegacyUnenumerableNamedProperties is
\* constructed only if it declares a named-property getter, whether the
\* extended attributes come before or after the getter among the children.
C15_LegacyUnenumerableNeedsNamedGetter ==
    pc = "ok" =>
        (InterfaceCarries("LegacyUnenumerableNamedProperties") => DeclaresNamedGetter)

\* an interface whose named getter comes before its
\* [LegacyUnenumerableNamedProperties] was constructed
C15_Witness ==
    /\ pc = "ok"
    /\ Len(Children) = 2
    /\ Children[1].class = "Operation"
    /\ Children[2].class = "ExtAttributes"
    /\ InterfaceCarries("LegacyUnenumerableNamedProperties")

\* the type that type_node_to_type built before the wrappers of this Type
\* node: under Nullable when the node is NULLABLE, then under Annotated when
\* the node has a second child
BaseOf(n, type) ==
    LET a == IF n.NULLABLE THEN type.inner_type ELSE type
    IN  IF Len(n.children) = 2 THEN a.inner_type ELSE a

\* C19: the type of a Type node that carries NULLABLE is Nullable(t), t being
\* the type of the same node without the marker, so Nullable is the outermost
\* wrapper, around the Annotated one; the members of a union are the types
\* of its member nodes in order, a member union staying one member.
C19_NullableWrapsBuiltType ==
    LET n == typenode.node
        r == typenode.type
        plain == type_node_to_type([n EXCEPT !.NULLABLE = FALSE])
    IN  /\ n.NULLABLE =>
               /\ r.raised = plain.raised
               /\ ~r.raised =>
                      /\ r.v = IdlNullableType(plain.v)
                      /\ Len(n.children) = 2 => r.v.inner_type.t = "Annotated"
        /\ (~r.raised /\ n.children[1].class = "UnionType") =>
               LET members == n.children[1].children
               IN  BaseOf(n, r.v)
                       = IdlUnionType([k \in DOMAIN members |->
                                          type_node_to_type(members[k]).v])

\* a NULLABLE, annotated Type node of a union whose first member is a union
\* was translated
C19_Witness ==
    /\ typenode.node.NULLABLE
    /\ ~typenode.type.raised
    /\ Len(typenode.node.children) = 2
    /\ typenode.node.children[1].class = "UnionType"
    /\ typenode.node.children[1].children[1].children[1].class = "UnionType"
    /\ typenode.type.v.inner_type.inner_type.member_types[1].t = "Union"

\* C16: the type a typedef stores is the union variant, as constructed (a
\* parsed type that is not a union becomes the only member of a union, a
\* union is stored as it is) and after any number of typedef merges.
C16_TypedefStoresUnion ==
    \A f \in DOMAIN typedefs :
        /\ typedefs[f].idl_type.t = "Union"
        /\ \A n \in TypedefNodes :
               LET parsed == type_node_to_type(n.children[1]).v
               IN  IdlTypedef(n).v.idl_type
                       = IF parsed.t = "Union" THEN parsed ELSE IdlUnionType(<<parsed>>)

\* the typedef of a single nullable type was merged with a union typedef
C16_Witness ==
    /\ call.op = "typedef"
    /\ Len(call.pre[call.self].idl_type.member_types) = 1
    /\ call.pre[call.self].idl_type.member_types[1].t = "Nullable"
    /\ Len(typedefs[call.self].idl_type.member_types) = 3

\* the number of times the list holds this value
Occurrences(values, v) == Cardinality({k \in DOMAIN values : values[k] = v})

\* C17: after a.merge(b) the values of enum a are those of a before the call
\* and those of b, nothing else, each exactly once; b is unchanged.
C17_EnumMergeIsSetUnion ==
    call.op = "enum" =>
        LET a == enumerations[call.self]
            before == call.pre[call.self]
            b == call.pre[call.other]
        IN  /\ Range(a.values) = Range(before.values) \cup Range(b.values)
            /\ \A v \in Range(a.values) : Occurrences(a.values, v) = 1
            /\ enumerations[call.other] = b

\* { A, B } was merged with { B, C } and holds exactly A, B and C
C17_Witness ==
    /\ call.op = "enum"
    /\ call.pre[call.self].values = <<"A", "B">>
    /\ call.pre[call.other].values = <<"B", "C">>
    /\ Range(enumerations[call.self].values) = {"A", "B", "C"}
    /\ Len(enumerations[call.self].values) = 3

\* the Exposed node among the node's own extended attributes
ExposedNode ==
    LET k == CHOOSE k \in ChildrenWhere("ExtAttributes",
                                        LAMBDA n : Carries(n.children, "Exposed")) : TRUE
        eas == Children[k].children
    IN  eas[CHOOSE j \in DOMAIN eas : eas[j].name = "Exposed"]

\* the pairs (context name, runtime-enable flag) that the claim gives for an
\* Exposed node
ExpectedExposures(ea) ==
    IF ea.children # <<>> /\ ea.children[1].class = "Arguments"
    THEN LET args == ea.children[1].children
         IN  [k \in DOMAIN args |-> <<args[k].type, PyStr(args[k].name)>>]
    ELSE IF ea.VALUE.t = "str" THEN <<(<<ea.VALUE.v, None>>)>>
    ELSE [k \in DOMAIN ea.VALUE.v |-> <<ea.VALUE.v[k], None>>]

\* C18: the Exposed entry extracted from a node whose child is an argument
\* list holds one exposure per argument, in order, the argument's type as
\* context name and its name as runtime-enable flag; from a scalar value it
\* holds one exposure without flag for a string, and one per element for a
\* list.
C18_ExposedExtraction ==
    (pc = "ok" /\ InterfaceCarries("Exposed")) =>
        LET exposures == Built.extended_attributes["Exposed"].v
        IN  [k \in DOMAIN exposures |-> ExposureKey(exposures[k])]
                = ExpectedExposures(ExposedNode)

\* an interface with [Exposed(Window FeatureFlag, Worker OtherFlag)] was
\* constructed
C18_Witness ==
    /\ pc = "ok"
    /\ InterfaceCarries("Exposed")
    /\ ExposedNode.children # <<>>
    /\ Len(Built.extended_attributes["Exposed"].v) = 2
    /\ Built.extended_attributes["Exposed"].v[1].runtime_enabled = PyStr("FeatureFlag")

\* the classes of top-level children that have an entity builder
EntityClasses == {"Interface", "Typedef", "Enum", "Callback", "Includes", "Dictionary"}

\* the child's class has no builder, or its builder raises on it
Faulty(child) ==
    \/ child.class \notin EntityClasses
    \/ child.class = "Interface" /\ IdlInterface(child.name, child.children).raised
    \/ child.class = "Typedef" /\ IdlTypedef(child).raised
    \/ child.class = "Callback" /\ IdlCallbackFunction(child).raised
    \/ child.class = "Dictionary" /\ IdlDictionary(child).raised

\* the root node is not a File, or one of the children read so far is faulty
RootFaulty ==
    \/ root.class # "File"
    \/ \E k \in DOMAIN root.children : Faulty(root.children[k])

\* C20: building a container is all-or-nothing.  When the root node is not
\* a File, or a top-level child has a class without builder, or a builder
\* raises, the construction raises at once (no later child is read) and the
\* caller gets no container; a container is returned only when every child
\* was built.
C20_ContainerAllOrNothing ==
    /\ RootFaulty => definitions = None
    /\ (RootFaulty /\ pc # "start") =>
          /\ pc = "raised"
          /\ root.class # "File" => root.children = <<>>
          /\ \A k \in DOMAIN root.children :
                Faulty(root.children[k]) => k = Len(root.children)
    /\ pc = "raised" => (RootFaulty /\ definitions = None)
    /\ definitions # None => (pc = "ok" /\ definitions = frame.self)

\* an interface was built and stored in the container under construction,
\* then the builder of a later child raised: the caller has no container
C20_Witness ==
    /\ pc = "raised"
    /\ definitions = None
    /\ Len(root.children) >= 2
    /\ frame.self.interfaces # EmptyDict
    /\ root.children[Len(root.children)].class \in EntityClasses

\* the visit operations of the entities a container holds, and of the
\* container
EntityVisits ==
    {"visit_definitions", "visit_interface", "visit_callback_function",
     "visit_dictionary", "visit_enumeration", "visit_include", "visit_typedef"}

\* the visits of an argument list, as declared
DeclaredArguments(arguments) ==
    [k \in DOMAIN arguments |-> Visit("visit_argument", arguments[k].name)]

\* the visits of one child of an Interface node, as declared
DeclaredMember(child) ==
    CASE child.class = "Attribute" -> <<Visit("visit_attribute", child.name)>>
      [] child.class = "Const" -> <<Visit("visit_constant", child.name)>>
      [] child.class = "Operation" ->
            <<Visit("visit_operation", child.name)>> \o DeclaredArguments(child.arguments)
      [] child.class = "Constructor" ->
            <<Visit("visit_operation", "Constructor")>>
                \o DeclaredArguments(child.arguments.children)
      [] child.class = "Stringifier" /\ child.attribute # None ->
            <<Visit("visit_attribute", child.attribute.name)>>
      [] child.class = "Stringifier" /\ child.operation # None ->
            <<Visit("visit_operation", child.operation.name)>>
                \o DeclaredArguments(child.operation.arguments)
      [] child.class = "Iterable" -> <<Visit("visit_iterable", "")>>
      [] child.class = "Maplike" -> <<Visit("visit_maplike", "")>>
      [] child.class = "Setlike" -> <<Visit("visit_setlike", "")>>
      [] OTHER -> <<>>

\* the visits of the members of an Interface node in the order of the node's
\* children
DeclaredMembers(n) == Flatten([k \in DOMAIN n.children |-> DeclaredMember(n.children[k])])

\* the members of an Interface node whose first visit is one of these
MembersVisitedBy(n, visits) ==
    Flatten([k \in DOMAIN n.children |->
                LET m == DeclaredMember(n.children[k])
                IN  IF m # <<>> /\ m[1].visit \in visits THEN m ELSE <<>>])

\* the visits of an Interface node with its members grouped by kind
GroupedMembers(n) ==
    MembersVisitedBy(n, {"visit_attribute"})
        \o MembersVisitedBy(n, {"visit_constant"})
        \o Flatten([k \in DOMAIN n.children |->
                       IF n.children[k].class = "Constructor"
                       THEN DeclaredMember(n.children[k]) ELSE <<>>])
        \o Flatten([k \in DOMAIN n.children |->
                       IF n.children[k].class = "Constructor"
                       THEN <<>> ELSE MembersVisitedBy(
                                          [children |-> <<n.children[k]>>],
                                          {"visit_operation"})])
        \o MembersVisitedBy(n, {"visit_iterable", "visit_maplike", "visit_setlike"})

\* the visits of a top-level node and of what it declares, Members giving
\* the order of an interface's members
DeclaredEntity(n, Members(_)) ==
    CASE n.class = "Interface" -> <<Visit("visit_interface", n.name)>> \o Members(n)
      [] n.class = "Callback" ->
            <<Visit("visit_callback_function", n.name)>>
                \o DeclaredArguments(n.children[2].children)
      [] n.class = "Dictionary" ->
            <<Visit("visit_dictionary", n.name)>>
                \o [k \in DOMAIN n.children |->
                       Visit("visit_dictionary_member", n.children[k].name)]
      [] n.class = "Enum" -> <<Visit("visit_enumeration", n.name)>>
      [] n.class = "Includes" -> <<Visit("visit_include", n.name)>>
      [] n.class = "Typedef" -> <<Visit("visit_typedef", n.name)>>

\* the nodes of one class among the root's children; for a class kept in a
\* dict, one node per name, in the order in which the names first occur, the
\* last node of a name standing for it
NodesOf(class) ==
    LET nodes == SelectSeq(root.children, LAMBDA c : c.class = class)
        first == SelectSeq([i \in DOMAIN nodes |-> i],
                           LAMBDA i : \A j \in 1..(i - 1) : nodes[j].name # nodes[i].name)
        Last(name) == CHOOSE j \in DOMAIN nodes :
                          /\ nodes[j].name = name
                          /\ \A m \in DOMAIN nodes : nodes[m].name = name => m <= j
    IN  IF class = "Includes" THEN nodes
        ELSE [k \in DOMAIN first |-> nodes[Last(nodes[first[k]].name)]]

\* the visits of the nodes of one class
DeclaredEntities(class, Members(_)) ==
    LET nodes == NodesOf(class)
    IN  Flatten([k \in DOMAIN nodes |-> DeclaredEntity(nodes[k], Members)])

\* the traversal of the container built from the root node, read off the
\* node: the entities kind by kind, each followed by what it declares
DeclaredTraversal(Members(_)) ==
    <<Visit("visit_definitions", "")>>
        \o DeclaredEntities("Interface", Members)
        \o DeclaredEntities("Callback", Members)
        \o DeclaredEntities("Dictionary", Members)
        \o DeclaredEntities("Enum", Members)
        \o DeclaredEntities("Includes", Members)
        \o DeclaredEntities("Typedef", Members)

C22_UpdateBringsEntities ==
    (call.op = "update" /\ ~call.raised) =>
        LET self == definitions[call.self]
            before == call.pre[call.self]
            other == call.pre[call.other]
        IN  /\ \A f \in {"enumerations", "callback_functions"} :
                  \A name \in DOMAIN other[f] :
                      name \in DOMAIN self[f] /\ self[f][name] = other[f][name]
            /\ \A name \in DOMAIN other.interfaces :
                  /\ name \in DOMAIN self.interfaces
                  /\ IF other.interfaces[name].is_partial
                     THEN /\ name \in DOMAIN before.interfaces
                          /\ self.interfaces[name] =
                                merge(before.interfaces[name], other.interfaces[name], <<>>)
                     ELSE self.interfaces[name] = other.interfaces[name]

\* the interfaces and dictionaries of the container that read_idl_file built
Targets ==
    { <<"interfaces", name>> : name \in DOMAIN frame.self.interfaces }
        \cup { <<"dictionaries", name>> : name \in DOMAIN frame.self.dictionaries }

\* the container holds an enum, a typedef or a callback function
HasOtherDefinitions ==
    \E f \in {"enumerations", "typedefs", "callback_functions"} :
        DOMAIN frame.self[f] # {}

\* the name of the definition t agrees with the file's basename, as it is or
\* in snake case
Agrees(t) ==
    \/ t[2] = call.idl_file_basename
    \/ to_snake_case(t[2]) = call.idl_file_basename

C24_ReturnsSingleInterface ==
    (pc = "ok" /\ call.op = "read_idl_file") =>
        Cardinality(DOMAIN definitions.interfaces) = 1

\* C25: every literal that default_node_to_idl_literal builds (DOMString,
\* integer, float, boolean, sequence, NULL, dictionary) has a textual
\* rendering: str does not raise; a non-empty string renders quoted and an
\* empty one as the empty-string sentinel, a boolean as true or false, null
\* as the null token and a dictionary literal as its raw value.
C25_LiteralsRender ==
    "text" \in DOMAIN frame =>
        /\ ~frame.raised
        /\ node.TYPE = "DOMString" =>
              frame.text = IF node.VALUE = <<>> THEN EmptyStringSentinel
                           ELSE <<"\"">> \o node.VALUE \o <<"\"">>
        /\ node.TYPE = "boolean" =>
              frame.text = IF node.VALUE THEN <<"t", "r", "u", "e">>
                           ELSE <<"f", "a", "l", "s", "e">>
        /\ node.TYPE = "NULL" => frame.text = <<"n", "u", "l", "l", "p", "t", "r">>
        /\ node.TYPE = "dictionary" => frame.text = node.VALUE

\* the objects above k on its chain of parents
StrictAncestors(k) ==
    LET parent == [j \in DOMAIN interfaces |->
                      IF interfaces[j].parent = None THEN 0 ELSE interfaces[j].parent.id]
    IN  Ancestors(parent, k, MaxChain)

\* the argument of the call, an interface or a name, is a strict ancestor of
\* the receiver
IsStrictAncestor ==
    \E k \in StrictAncestors(call.self) :
        IF call.maybe_parent.t = "str"
        THEN interfaces[k].name = call.maybe_parent.v
        ELSE k = call.maybe_parent.id

\* C26: on a finite acyclic chain of resolved parents is_subclass_of(X)
\* terminates, and it returns True exactly when X, an interface or a name, is
\* a strict ancestor of the receiver; for the receiver itself or its own
\* name it returns False.
C26_SubclassOfTerminates ==
    /\ <>(pc = "returned")
    /\ [](pc = "returned" => frame.returned = IsStrictAncestor)

\* the call returned True for an interface two links up the chain
C26_Witness ==
    /\ pc = "returned"
    /\ frame.returned = TRUE
    /\ call.maybe_parent.t = "IdlInterface"
    /\ interfaces[call.self].parent # None
    /\ interfaces[call.self].parent.id # call.maybe_parent.id

\* C27: for every interface, after construction and after any sequence of
\* merge and inherite calls, the keys of attributes_dict are exactly the
\* names occurring in attributes (an attribute promoted from a stringifier
\* included), and attributes_dict[n] is one of the listed attributes named n.
C27_NameIndexConsistent ==
    \A i \in Ifaces :
        /\ DOMAIN interfaces[i].attributes_dict = Names(interfaces[i].attributes)
        /\ \A n \in DOMAIN interfaces[i].attributes_dict :
              interfaces[i].attributes_dict[n] \in Range(Named(interfaces[i].attributes, n))

\* C28: after construction and after any sequence of merge and inherite
\* calls, every entry of an interface's event-handler list is also an entry
\* of that interface's attribute list.
C28_EventHandlersAreAttributes ==
    \A i \in Ifaces :
        Range(interfaces[i].eventhandlers) \subseteq Range(interfaces[i].attributes)

\* the objects interface i reaches in heap h: itself, its lists and dicts,
\* the lists of its type index and the lists among its extended attributes
Reaches(h, i) ==
    LET self == Self(h, i)
        Refs(d) == {d[k].id : k \in {j \in DOMAIN d : d[j].t = "ref"}}
    IN  {ObjId(i, "self", "", 0)}
            \cup {self[f] : f \in ListFields \cup DictFields}
            \cup Refs(h[self.attributes_type_dict])
            \cup Refs(h[self.extended_attributes])

\* C29: merge and inherite mutate only the receiver: the argument interface,
\* its attribute list, name and type indexes, operations, constants,
\* constructors, event-handler list, extended-attribute mapping with its
\* Exposed list, and its stringifier are after the call what they were before.
C29_ArgumentUnchanged ==
    (Called("merge") \/ Called("inherite")) =>
        \A id \in Reaches(call.pre, call.other) : interfaces[id] = call.pre[id]

\* a call united the Exposed lists while the receiver's list was the very
\* list object of the argument, and the argument had members to hand over
C29_Witness ==
    /\ Called("merge") \/ Called("inherite")
    /\ "Exposed" \in DOMAIN call.pre[Self(call.pre, call.self).extended_attributes]
    /\ "Exposed" \in DOMAIN call.pre[Self(call.pre, call.other).extended_attributes]
    /\ call.pre[Self(call.pre, call.self).extended_attributes]["Exposed"]
          = call.pre[Self(call.pre, call.other).extended_attributes]["Exposed"]
    /\ interfaces[Self(interfaces, call.self).extended_attributes]["Exposed"]
          # call.pre[Self(call.pre, call.self).extended_attributes]["Exposed"]
    /\ call.pre[Self(call.pre, call.other).attributes] # <<>>

\* the members named n that C holds after the chain: its own if it declared
\* one, else P's, else G's
Resolved(field, n) ==
    IF Named(frame["C"][field], n) # <<>> THEN Named(frame["C"][field], n)
    ELSE IF Named(frame["P"][field], n) # <<>> THEN Named(frame["P"][field], n)
    ELSE Named(frame["G"][field], n)

\* C30: after P.inherite(G) followed by C.inherite(P), every attribute name
\* and every operation name of G is an attribute name, respectively
\* operation name, of C, and under each such name C holds its own member if
\* it declared one, else P's, else G's.
C30_InheritanceComposes ==
    pc = "done" =>
        \A field \in {"attributes", "operations"} :
            \A n \in Names(frame["G"][field]) :
                /\ n \in Names(interfaces["C"][field])
                /\ Named(interfaces["C"][field], n) = Resolved(field, n)

====
